---- MODULE Spec2Model ----
(***************************************************************************)
(* PaperSeeker: search -> filter -> summarize -> notify.                   *)
(*                                                                         *)
(* A Python dict is a TLA+ function from key strings to values; a missing  *)
(* key is a key outside DOMAIN.  A Python str that the code inspects       *)
(* character by character (substring tests, lower()) is a sequence of      *)
(* one-character strings.                                                  *)
(***************************************************************************)
EXTENDS Integers, Sequences, FiniteSets, TLC

VARIABLES
    \* ---- KeywordFilter (src/src/paper_filter.py) ----
    cfg_keywords,      \* keywords argument of KeywordFilter.__init__
    cfg_exclude,       \* exclude_keywords argument of KeywordFilter.__init__
    keywords,          \* self.keywords
    exclude_keywords,  \* self.exclude_keywords
    kf_papers,         \* papers argument of filter_batch
    kf_threshold,      \* threshold argument of filter_batch
    kf_filtered,       \* value returned by filter_batch
    kf_scores,         \* the values of `score` in filter_batch's loop, one per paper
    kf_refiltered,     \* value returned by filter_batch on kf_filtered
    kf_pc              \* "ready" | "done" | "again"

kfvars == <<cfg_keywords, cfg_exclude, keywords, exclude_keywords,
            kf_papers, kf_threshold, kf_filtered, kf_scores, kf_refiltered, kf_pc>>

VARIABLES
    \* ---- OpenAlexSearcher.search (src/src/paper_searcher.py) ----
    s_keywords,        \* keywords argument
    s_days_back,       \* days_back argument
    s_from_date,       \* from_date argument (NoDate: None or "")
    s_to_date,         \* to_date argument (NoDate: None or "")
    s_frame,           \* the local variables from_dt and to_dt; an unbound one is no key
    all_papers,        \* all_papers
    seen_ids,          \* seen_ids
    s_idx,             \* number of keywords the for loop has finished
    s_queries,         \* every HTTP request issued so far, in order
    s_fetched,         \* per finished keyword, what _search_single_keyword returned
    s_primary,         \* per keyword searched: how its primary request ended
    s_outcomes,        \* per keyword tried, whether its requests were answered or failed
    s_aggregated,      \* all_papers as it was when the for loop ended
    s_result,          \* value returned by search
    s_error,           \* name of the exception that left search, or ""
    s_pc               \* "start" | "loop" | "sort" | "done" | "raised"

svars == <<s_keywords, s_days_back, s_from_date, s_to_date, s_frame, all_papers,
           seen_ids, s_idx, s_queries, s_fetched, s_primary, s_outcomes,
           s_aggregated, s_result, s_error, s_pc>>

VARIABLES
    \* ---- AbstractSummarizer (src/src/summarizer.py) ----
    sm_client,         \* whether self.client is set (an api_key was given)
    sm_papers,         \* papers argument of summarize_batch
    sm_result,         \* value returned by summarize_batch
    sm_calls,          \* the papers a model completion was requested for, in order
    sm_pc              \* "ready" | "done"

smvars == <<sm_client, sm_papers, sm_result, sm_calls, sm_pc>>

VARIABLES
    \* ---- EmailSender (src/src/email_sender.py) ----
    sender_email,      \* self.sender_email ("" when unconfigured)
    recipient_email,   \* self.recipient_email ("" when unconfigured)
    nt_call,           \* the call made: its method and arguments
    nt_built,          \* the documents handed to _send_email, in order
    nt_sessions,       \* one entry per smtplib.SMTP(...) opened: how it ended
    nt_outbox,         \* the messages sendmail delivered
    nt_returned,       \* value returned by the call
    nt_pc              \* "ready" | "done"

ntvars == <<sender_email, recipient_email, nt_call, nt_built, nt_sessions,
            nt_outbox, nt_returned, nt_pc>>

VARIABLES
    \* ---- daily_task (src/main.py) ----
    config,            \* what get_config() returns, on the properties read
    dt_args,           \* the arguments from_date, to_date, days_back
    dt_papers,         \* papers: the records search returned
    filtered_papers,   \* the records the filter stage kept
    papers_with_summary, \* the records handed to send
    dt_events,         \* what the run did to the outside, in order
    dt_writes,         \* the assignments to summary fields, in order
    dt_ai_scores,      \* per record the AI filter judged: its id and score
    dt_summary_calls,  \* the ids of the records the summary model was asked about
    dt_built,          \* the documents handed to _send_email
    dt_outbox,         \* the messages delivered
    dt_error,          \* the exception that ended the run, "" when none
    dt_pc              \* the run's position

dtvars == <<config, dt_args, dt_papers, filtered_papers, papers_with_summary,
            dt_events, dt_writes, dt_ai_scores, dt_summary_calls, dt_built,
            dt_outbox, dt_error, dt_pc>>

VARIABLES
    \* ---- PaperFilter (src/src/paper_filter.py) ----
    pf_api_key,        \* the api_key the filter was constructed with
    pf_client,         \* self.client: TRUE for a client, FALSE for None
    pf_papers,         \* argument of filter_batch
    pf_threshold,      \* argument of filter_batch
    pf_replies,        \* what the model calls of the batch came back with
    pf_result,         \* value returned by filter_batch
    pf_calls,          \* number of model calls made
    pf_pc              \* "ready" | "done"

pfvars == <<pf_api_key, pf_client, pf_papers, pf_threshold, pf_replies,
            pf_result, pf_calls, pf_pc>>

VARIABLES
    \* ---- PaperFilter.filter_single (src/src/paper_filter.py) ----
    pr_reply,          \* what the model call came back with
    pr_result,         \* value returned by filter_single
    pr_pc              \* "ready" | "returned"

prvars == <<pr_reply, pr_result, pr_pc>>

VARIABLES
    \* ---- OpenAlexSearcher._parse_work (src/src/paper_searcher.py) ----
    pw_work,           \* the provider payload
    pw_record,         \* value returned by _parse_work
    pw_pc              \* "ready" | "returned"

pwvars == <<pw_work, pw_record, pw_pc>>

vars == <<kfvars, svars, smvars, ntvars, dtvars, pfvars, prvars, pwvars>>

\* the variables each component leaves alone
NotKf == <<svars, smvars, ntvars, dtvars, pfvars, prvars, pwvars>>
NotS == <<kfvars, smvars, ntvars, dtvars, pfvars, prvars, pwvars>>
NotSm == <<kfvars, svars, ntvars, dtvars, pfvars, prvars, pwvars>>
NotNt == <<kfvars, svars, smvars, dtvars, pfvars, prvars, pwvars>>
NotDt == <<kfvars, svars, smvars, ntvars, pfvars, prvars, pwvars>>
NotPf == <<kfvars, svars, smvars, ntvars, dtvars, prvars, pwvars>>
NotPr == <<kfvars, svars, smvars, ntvars, dtvars, pfvars, pwvars>>
NotPw == <<kfvars, svars, smvars, ntvars, dtvars, pfvars, prvars>>

\* ------------------------------------------------------------------ bounds

MaxKeywords == 2
MaxExclude == 2
MaxPapers == 2
MaxThreshold == 2
MaxWorks == 2
MaxReplyLen == 3

\* ------------------------------------------------------- generic helpers

Max(a, b) == IF a >= b THEN a ELSE b

SeqsUpTo(S, n) == UNION {[1..k -> S] : k \in 0..n}

\* the elements of a sequence
Range(f) == {f[i] : i \in DOMAIN f}

\* dict.get(key, default)
Get(d, k, default) == IF k \in DOMAIN d THEN d[k] ELSE default

\* d[key] = value on a dict
Put(d, k, v) == (k :> v) @@ d

\* str.lower() on one character of the alphabet used here
Lower(c) ==
    CASE c = "A" -> "a"
      [] c = "B" -> "b"
      [] c = "C" -> "c"
      [] OTHER -> c

\* str.lower()
LowerStr(s) == [i \in 1..Len(s) |-> Lower(s[i])]

\* Python's `k in t` on two str
IsSubstring(k, t) ==
    \E i \in 1..(Len(t) - Len(k) + 1) :
        \A j \in 1..Len(k) : t[i + j - 1] = k[j]

\* " ".join(parts)
RECURSIVE JoinSpace(_)
JoinSpace(parts) ==
    IF parts = <<>> THEN <<>>
    ELSE IF Len(parts) = 1 THEN Head(parts)
    ELSE Head(parts) \o <<" ">> \o JoinSpace(Tail(parts))

\* ----------------------------------------------------------- KeywordFilter

\* Python's None as the value of a text field, of an object field and of a
\* date field
None == <<"[None]">>
NoneObject == [none |-> TRUE]
NoneDate == 0 - 1

\* Python's truth test on a text and on an object: None and the empty value
\* are false
Falsy(v) == v = None \/ v = <<>>
FalsyObject(v) == v = <<>> \/ v = NoneObject

\* str(p)
Str(p) == IF p = None THEN <<"N", "o", "n", "e">> ELSE p

\* KeywordFilter.__init__: both lists are stored lowercased
LowerAll(ks) == [i \in 1..Len(ks) |-> LowerStr(ks[i])]

\* KeywordFilter._get_text: title, abstract, journal and the concept labels,
\* joined by single spaces
GetText(paper) ==
    JoinSpace(<<Str(Get(paper, "title", <<>>)),
                Str(Get(paper, "abstract", <<>>)),
                Str(Get(paper, "journal", <<>>))>>
              \o Get(paper, "concepts", <<>>))

RewardTwice(score) == score + 2

\* one matched research keyword
Reward(score) == score + 1

PenaltyNoFloor(score) == score - 2

\* one matched exclusion keyword
Penalty(score) == Max(0, score - 2)

RECURSIVE KeywordLoop(_, _, _)
KeywordLoop(kws, text, score) ==
    IF kws = <<>> THEN score
    ELSE KeywordLoop(Tail(kws), text,
                     IF IsSubstring(Head(kws), text) THEN Reward(score) ELSE score)

RECURSIVE ExcludeLoop(_, _, _)
ExcludeLoop(exs, text, score) ==
    IF exs = <<>> THEN score
    ELSE ExcludeLoop(Tail(exs), text,
                     IF IsSubstring(Head(exs), text) THEN Penalty(score) ELSE score)

ScorePaperAccumulating(kws, exs, paper) ==
    LET text == LowerStr(GetText(paper))
    IN  ExcludeLoop(exs, text,
                    KeywordLoop(kws, text, Get(paper, "relevance_score", 0)))

\* KeywordFilter._score_paper
ScorePaper(kws, exs, paper) ==
    LET text == LowerStr(GetText(paper))
    IN  ExcludeLoop(exs, text, KeywordLoop(kws, text, 0))

KeepsStrict(score, threshold) == score > threshold

\* the test `score >= threshold` of both filter_batch loops
Keeps(score, threshold) == score >= threshold

RECURSIVE KeywordFilterLoop(_, _, _, _, _)
KeywordFilterLoop(kws, exs, papers, threshold, filtered) ==
    IF papers = <<>> THEN filtered
    ELSE LET paper == Head(papers)
             score == ScorePaper(kws, exs, paper)
         IN  KeywordFilterLoop(kws, exs, Tail(papers), threshold,
                 IF Keeps(score, threshold)
                 THEN Append(filtered, Put(paper, "relevance_score", score))
                 ELSE filtered)

\* KeywordFilter.filter_batch
KeywordFilterBatch(kws, exs, papers, threshold) ==
    KeywordFilterLoop(kws, exs, papers, threshold, <<>>)

\* ---- inputs of the KeywordFilter specification

KeywordWords == {<<"a">>, <<"A", "b">>}
ExcludeWords == {<<"b">>, <<"C">>}

FilterPapers ==
    { [title |-> <<"A", "b">>, abstract |-> <<"c">>, journal |-> <<>>, concepts |-> <<>>],
      [title |-> <<"a">>, abstract |-> <<>>, journal |-> <<"b">>, concepts |-> <<>>],
      [title |-> <<"x">>, abstract |-> <<>>, journal |-> <<>>, concepts |-> << <<"C">> >>],
      [title |-> <<"c", "A">>, abstract |-> <<"B">>, journal |-> <<>>, concepts |-> <<>>] }

KfStart ==
    /\ cfg_keywords \in SeqsUpTo(KeywordWords, MaxKeywords)
    /\ cfg_exclude \in SeqsUpTo(ExcludeWords, MaxExclude)
    /\ keywords = LowerAll(cfg_keywords)
    /\ exclude_keywords = LowerAll(cfg_exclude)
    /\ kf_papers \in SeqsUpTo(FilterPapers, MaxPapers)
    /\ kf_threshold \in 0..MaxThreshold
    /\ kf_filtered = <<>>
    /\ kf_scores = <<>>
    /\ kf_refiltered = <<>>
    /\ kf_pc = "ready"

\* ---- inputs of the keyword scoring scenario

\* "battery"
BatteryWord == <<"b", "a", "t", "t", "e", "r", "y">>
\* "Research"
ResearchWord == <<"R", "e", "s", "e", "a", "r", "c", "h">>
\* "Battery battery research"
BatteryTitle == <<"B", "a", "t", "t", "e", "r", "y", " ", "b", "a", "t", "t", "e", "r", "y", " ", "r", "e", "s", "e", "a", "r", "c", "h">>

ScenarioKeywordLists ==
    {ks \in SeqsUpTo({BatteryWord, ResearchWord}, 2) : ks # <<>>}

\* records with a title and every other field empty
ScenarioPapers ==
    {[title |-> t, abstract |-> <<>>, journal |-> <<>>, concepts |-> <<>>] :
        t \in {BatteryTitle, BatteryWord, ResearchWord, <<>>}}

ScenarioStart ==
    /\ cfg_keywords \in ScenarioKeywordLists
    /\ cfg_exclude = <<>>
    /\ keywords = LowerAll(cfg_keywords)
    /\ exclude_keywords = LowerAll(cfg_exclude)
    /\ kf_papers \in {<<paper>> : paper \in ScenarioPapers}
    /\ kf_threshold \in 0..3
    /\ kf_filtered = <<>>
    /\ kf_scores = <<>>
    /\ kf_refiltered = <<>>
    /\ kf_pc = "ready"

\* filter_batch(papers, threshold)
KfFilterBatch ==
    /\ kf_pc = "ready"
    /\ kf_filtered' = KeywordFilterBatch(keywords, exclude_keywords, kf_papers, kf_threshold)
    /\ kf_scores' = [i \in 1..Len(kf_papers) |->
                        ScorePaper(keywords, exclude_keywords, kf_papers[i])]
    /\ kf_pc' = "done"
    /\ UNCHANGED <<cfg_keywords, cfg_exclude, keywords, exclude_keywords,
                   kf_papers, kf_threshold, kf_refiltered>>
    /\ UNCHANGED NotKf

\* filter_batch(filtered, threshold), on the list the first call returned
KfFilterAgain ==
    /\ kf_pc = "done"
    /\ kf_refiltered' =
           KeywordFilterBatch(keywords, exclude_keywords, kf_filtered, kf_threshold)
    /\ kf_pc' = "again"
    /\ UNCHANGED <<cfg_keywords, cfg_exclude, keywords, exclude_keywords,
                   kf_papers, kf_threshold, kf_filtered, kf_scores>>
    /\ UNCHANGED NotKf

\* ------------------------------------------------------- OpenAlexSearcher

\* A calendar date is the number of its day, so that comparing two ISO date
\* strings is comparing two numbers; NoDate stands for a missing date: None or
\* "" as an argument, "" as a publication_date (it sorts below every date).
NoDate == 0

\* datetime.now()
Today == 10

\* OpenAlexSearcher._days_ago
DaysAgo(days) == Today - days

\* s.split("/")[-1]: what follows the last "/" of s
RECURSIVE LastSegment(_)
LastSegment(s) ==
    IF s = <<>> THEN <<>>
    ELSE IF \E i \in 1..Len(s) : s[i] = "/"
         THEN LastSegment(Tail(s))
         ELSE s

\* the concepts loop of _parse_work: display names of the level-0 concepts
RECURSIVE TopConcepts(_)
TopConcepts(cs) ==
    IF cs = <<>> THEN <<>>
    ELSE IF Get(Head(cs), "level", 0) = 0
         THEN <<Get(Head(cs), "display_name", <<>>)>> \o TopConcepts(Tail(cs))
         ELSE TopConcepts(Tail(cs))

\* OpenAlexSearcher._parse_work, on the fields the later stages read (doi,
\* authors, language and keywords are copied through and read by no stage
\* but the digest's rendering)
\* A JSON null in the payload is a key that is present with the value None:
\* dict.get returns it, and only the tests "if work.get('id')" and "if host"
\* replace it by the empty string
ParseWork(work) ==
    [id |-> IF ~Falsy(Get(work, "id", <<>>)) THEN LastSegment(work["id"]) ELSE <<>>,
     title |-> Get(work, "title", <<>>),
     publication_date |-> Get(work, "publication_date", NoDate),
     journal |-> IF ~FalsyObject(Get(work, "journal", <<>>))
                 THEN Get(work["journal"], "display_name", <<>>)
                 ELSE <<>>,
     abstract |-> Get(work, "abstract", <<>>),
     concepts |-> TopConcepts(Get(work, "concepts", <<>>)),
     openalex_url |-> Get(work, "id", <<>>)]

ParseWorks(works) == [i \in 1..Len(works) |-> ParseWork(works[i])]

\* one HTTP request
Query(endpoint, keyword, from_date, to_date) ==
    [endpoint |-> endpoint, keyword |-> keyword,
     from_date |-> from_date, to_date |-> to_date]

\* what a call returns or raises
Returned(papers, queries) == [error |-> "", papers |-> papers, queries |-> queries]
Raised(error, queries) == [error |-> error, papers |-> <<>>, queries |-> queries]

\* session.get / session.post raising RequestException, or raise_for_status
\* raising HTTPError (a RequestException)
IsRequestException(reply) == reply.kind \in {"transport_error", "http_error"}

\* OpenAlexSearcher._search_rest_api
SearchRestApi(keyword, from_date, to_date, rest) ==
    LET q == <<Query("works", keyword, from_date, to_date)>>
    IN  IF IsRequestException(rest)
        THEN Returned(<<>>, q)
        ELSE Returned(ParseWorks(rest.works), q)

\* what follows the primary request when it raised no RequestException and
\* the reply's "data" is an object or is missing
PrimaryParsed(keyword, from_date, to_date, primary, rest, q) ==
    LET works == IF primary.data = "object" THEN primary.works ELSE <<>>
    IN  IF works = <<>> /\ primary.errors
        THEN LET r == SearchRestApi(keyword, from_date, to_date, rest)
             IN  Returned(r.papers, q \o r.queries)
        ELSE Returned(ParseWorks(works), q)

\* a primary request that is tried again after an exception
SearchSingleKeywordRetrying(keyword, from_date, to_date, primary, rest) ==
    LET q == <<Query("graphql", keyword, from_date, to_date)>>
    IN  IF IsRequestException(primary)
        THEN LET r == SearchRestApi(keyword, from_date, to_date, rest)
             IN  Returned(r.papers, q \o q \o r.queries)
        ELSE IF primary.data = "null"
        THEN Raised("AttributeError", q)
        ELSE PrimaryParsed(keyword, from_date, to_date, primary, rest, q)

\* OpenAlexSearcher._search_single_keyword.  With "data": null in the reply,
\* data.get("data", {}) is None and .get on it raises AttributeError, which
\* the except clause (RequestException only) lets through.
SearchSingleKeyword(keyword, from_date, to_date, primary, rest) ==
    LET q == <<Query("graphql", keyword, from_date, to_date)>>
    IN  IF IsRequestException(primary)
        THEN LET r == SearchRestApi(keyword, from_date, to_date, rest)
             IN  Returned(r.papers, q \o r.queries)
        ELSE IF primary.data = "null"
        THEN Raised("AttributeError", q)
        ELSE PrimaryParsed(keyword, from_date, to_date, primary, rest, q)

IsNewIgnoringSeen(paper_id, seen) == paper_id # <<>>

IsNewAdmittingEmpty(paper_id, seen) == paper_id \notin seen

\* the test `paper_id and paper_id not in seen_ids`
IsNew(paper_id, seen) == paper_id # <<>> /\ paper_id \notin seen

\* the "Remove duplicates" loop of search: new_papers and seen_ids after it
RECURSIVE Dedupe(_, _, _)
Dedupe(papers, seen, new_papers) ==
    IF papers = <<>> THEN [new_papers |-> new_papers, seen_ids |-> seen]
    ELSE LET paper == Head(papers)
             paper_id == Get(paper, "id", <<>>)
         IN  IF IsNew(paper_id, seen)
             THEN Dedupe(Tail(papers), seen \cup {paper_id}, Append(new_papers, paper))
             ELSE Dedupe(Tail(papers), seen, new_papers)

SortKey(paper) == Get(paper, "publication_date", NoDate)

GoesBeforeUnstable(x, y) == SortKey(x) >= SortKey(y)

\* under sort(key, reverse=True) a later element x passes an earlier element y
\* only when its key is strictly greater: equal keys keep their order
GoesBefore(x, y) == SortKey(x) > SortKey(y)

\* x put into a list already sorted, behind every element it does not pass
RECURSIVE InsertSorted(_, _)
InsertSorted(sorted, x) ==
    IF sorted = <<>> THEN <<x>>
    ELSE IF GoesBefore(x, Head(sorted))
         THEN <<x>> \o sorted
         ELSE <<Head(sorted)>> \o InsertSorted(Tail(sorted), x)

\* all_papers.sort(key=publication_date, reverse=True)
RECURSIVE SortNewestFirst(_, _)
SortNewestFirst(papers, sorted) ==
    IF papers = <<>> THEN sorted
    ELSE SortNewestFirst(Tail(papers), InsertSorted(sorted, Head(papers)))

\* ---- inputs of the searcher specification

SearchKeywordLists == {<<>>, <<"k1">>, <<"k1", "k2">>, <<"k1", "k1">>}
FromDates == {NoDate, 5}
ToDates == {NoDate, 9}
DaysBackChoices == {1, 7}

\* raw provider payloads: two with the same identifier under different URL
\* prefixes, two pairs with the same publication date, one without an identifier
RawWorks ==
    { [id |-> <<"o", "/", "W", "1">>, title |-> <<"a">>, publication_date |-> 5,
       journal |-> [display_name |-> <<"j">>],
       concepts |-> <<[display_name |-> <<"c">>, level |-> 0],
                      [display_name |-> <<"d">>, level |-> 1]>>],
      [id |-> <<"W", "1">>, title |-> <<"b">>, publication_date |-> 7],
      [id |-> <<"o", "/", "W", "2">>, title |-> <<"a">>, publication_date |-> 5,
       abstract |-> <<"x">>],
      [id |-> <<"o", "/", "W", "3">>, title |-> <<"c">>, publication_date |-> 7],
      [title |-> <<"b">>, publication_date |-> 7] }

\* the result lists a reply can carry: each payload at most once
WorkLists ==
    {ws \in SeqsUpTo(RawWorks, MaxWorks) :
        \A i, j \in 1..Len(ws) : ws[i] = ws[j] => i = j}

\* replies to the primary (structured query) request; data says whether the
\* reply's "data" is an object, is null or is missing, errors whether the reply
\* has an "errors" key
PrimaryReplies ==
    {[kind |-> k, data |-> "missing", errors |-> FALSE, works |-> <<>>] :
        k \in {"transport_error", "http_error"}}
    \cup {[kind |-> "json", data |-> "missing", errors |-> e, works |-> <<>>] :
        e \in BOOLEAN}
    \cup {[kind |-> "json", data |-> "null", errors |-> TRUE, works |-> <<>>]}
    \cup {[kind |-> "json", data |-> "object", errors |-> e, works |-> ws] :
        e \in BOOLEAN, ws \in WorkLists}

\* replies to the fallback (resource listing) request: an error, or a result
\* list of at most one payload
RestReplies ==
    {[kind |-> k, works |-> <<>>] : k \in {"transport_error", "http_error"}}
    \cup {[kind |-> "json", works |-> ws] : ws \in SeqsUpTo(RawWorks, 1)}

\* how the primary request of a keyword ended: with an exception of requests,
\* or with a reply whose data is null, which carries results, or which
\* carries none, with or without an "errors" key
PrimaryEnded(primary) ==
    IF IsRequestException(primary) THEN "exception"
    ELSE IF primary.data = "null" THEN "null_data"
    ELSE IF primary.data = "object" /\ primary.works # <<>> THEN "results"
    ELSE IF primary.errors THEN "no_results_with_errors"
    ELSE "no_results"

\* whether the primary reply makes _search_single_keyword issue the fallback
\* request
IssuesFallback(primary) ==
    \/ IsRequestException(primary)
    \/ /\ primary.data # "null"
       /\ primary.errors
       /\ (primary.data = "object" => primary.works = <<>>)

\* the replies the fallback request can get; none is read when it is not issued
RestRepliesAfter(primary) ==
    IF IssuesFallback(primary) THEN RestReplies
    ELSE {[kind |-> "json", works |-> <<>>]}

\* "failed": the keyword's requests ended in a transport error, an HTTP error
\* status or an error-shaped reply, with no request answered by a result list
Outcome(primary, rest) ==
    IF \/ (~IsRequestException(primary) /\ primary.data = "null")
       \/ (IssuesFallback(primary) /\ IsRequestException(rest))
    THEN "failed"
    ELSE "answered"

SStart ==
    /\ s_keywords \in SearchKeywordLists
    /\ s_days_back \in DaysBackChoices
    /\ s_from_date \in FromDates
    /\ s_to_date \in ToDates
    /\ s_frame = <<>>
    /\ all_papers = <<>>
    /\ seen_ids = {}
    /\ s_idx = 0
    /\ s_queries = <<>>
    /\ s_fetched = <<>>
    /\ s_primary = <<>>
    /\ s_outcomes = <<>>
    /\ s_aggregated = <<>>
    /\ s_result = <<>>
    /\ s_error = ""
    /\ s_pc = "start"

FromDtKeepingFromDate(from_date, to_date, days_back) ==
    IF from_date # NoDate THEN from_date ELSE DaysAgo(days_back)

\* from_dt after "Calculate date filter": the else branch of `if to_date`
\* assigns from_dt again
FromDt(from_date, to_date, days_back) ==
    IF to_date # NoDate
    THEN (IF from_date # NoDate THEN from_date ELSE DaysAgo(days_back))
    ELSE DaysAgo(days_back)

\* the local variables after "Calculate date filter": to_dt is assigned only
\* when to_date is given
DateWindow(from_date, to_date, days_back) ==
    IF to_date # NoDate
    THEN [from_dt |-> FromDt(from_date, to_date, days_back), to_dt |-> to_date]
    ELSE [from_dt |-> FromDt(from_date, to_date, days_back)]

\* search, up to the for loop
SearchBegin ==
    /\ s_pc = "start"
    /\ s_frame' = DateWindow(s_from_date, s_to_date, s_days_back)
    /\ all_papers' = <<>>
    /\ seen_ids' = {}
    /\ s_pc' = IF s_keywords = <<>> THEN "sort" ELSE "loop"
    /\ UNCHANGED <<s_keywords, s_days_back, s_from_date, s_to_date, s_idx,
                   s_queries, s_fetched, s_primary, s_outcomes, s_aggregated, s_result,
                   s_error>>
    /\ UNCHANGED NotS

\* one pass of the for loop whose call arguments cannot be evaluated: to_dt
\* is unbound
SearchKeywordUnbound ==
    /\ s_pc = "loop"
    /\ "to_dt" \notin DOMAIN s_frame
    /\ s_error' = "UnboundLocalError"
    /\ s_pc' = "raised"
    /\ UNCHANGED <<s_keywords, s_days_back, s_from_date, s_to_date, s_frame,
                   all_papers, seen_ids, s_idx, s_queries, s_fetched, s_primary,
                   s_outcomes,
                   s_aggregated, s_result>>
    /\ UNCHANGED NotS

\* one pass of the for loop: the keyword's requests, their replies, and the
\* removal of duplicates
SearchKeyword ==
    /\ s_pc = "loop"
    /\ "to_dt" \in DOMAIN s_frame
    /\ \E primary \in PrimaryReplies : \E rest \in RestRepliesAfter(primary) :
          LET got == SearchSingleKeyword(s_keywords[s_idx + 1], s_frame["from_dt"],
                                         s_frame["to_dt"], primary, rest)
              dd == Dedupe(got.papers, seen_ids, <<>>)
          IN  /\ s_queries' = s_queries \o got.queries
              /\ s_primary' = Append(s_primary, PrimaryEnded(primary))
              /\ s_outcomes' = Append(s_outcomes, Outcome(primary, rest))
              /\ IF got.error # ""
                 THEN /\ s_error' = got.error
                      /\ s_pc' = "raised"
                      /\ UNCHANGED <<all_papers, seen_ids, s_idx, s_fetched>>
                 ELSE /\ s_fetched' = Append(s_fetched, got.papers)
                      /\ all_papers' = all_papers \o dd.new_papers
                      /\ seen_ids' = dd.seen_ids
                      /\ s_idx' = s_idx + 1
                      /\ s_pc' = IF s_idx + 1 = Len(s_keywords) THEN "sort" ELSE "loop"
                      /\ UNCHANGED s_error
    /\ UNCHANGED <<s_keywords, s_days_back, s_from_date, s_to_date, s_frame,
                   s_aggregated, s_result>>
    /\ UNCHANGED NotS

\* search, after the for loop: sort and return
SearchReturn ==
    /\ s_pc = "sort"
    /\ s_aggregated' = all_papers
    /\ all_papers' = SortNewestFirst(all_papers, <<>>)
    /\ s_result' = all_papers'
    /\ s_pc' = "done"
    /\ UNCHANGED <<s_keywords, s_days_back, s_from_date, s_to_date, s_frame,
                   seen_ids, s_idx, s_queries, s_fetched, s_primary, s_outcomes,
                   s_error>>
    /\ UNCHANGED NotS

\* ----------------------------------------------------- AbstractSummarizer

\* the literal "（原文摘要不可用）"
AbstractUnavailableZh == <<"(zh: abstract unavailable)">>

\* the literal "(Abstract not available)"
AbstractUnavailableEn == <<"(Abstract not available)">>

\* the literal "（摘要生成失败）"
SummaryFailedZh == <<"(zh: summary generation failed)">>

\* the f-string "(Summary generation failed: {e})"
SummaryFailedEn == <<"(Summary generation failed: ", "e", ")">>

\* the section marker "【中文摘要】"; one token here, six characters there
ZhMarker == "[zh-marker]"

\* the section marker "English Abstract:"; one token here, seventeen there
EnMarker == "English Abstract:"

\* str.find on a token sequence: the first place of the token, 0 for -1
Find(content, token) ==
    IF \E i \in 1..Len(content) : content[i] = token
    THEN CHOOSE i \in 1..Len(content) :
             content[i] = token /\ \A j \in 1..(i - 1) : content[j] # token
    ELSE 0

\* content[a:b] with both ends counted from 1 and b included
Slice(content, a, b) == IF a > b THEN <<>> ELSE SubSeq(content, a, b)

\* str.strip()
RECURSIVE Strip(_)
Strip(t) ==
    IF t = <<>> THEN t
    ELSE IF Head(t) = " " THEN Strip(Tail(t))
    ELSE IF t[Len(t)] = " " THEN Strip(SubSeq(t, 1, Len(t) - 1))
    ELSE t

\* "Parse bilingual summary" of _summarize_paper
ParseSummary(content) ==
    LET zh_match == Find(content, ZhMarker)
        en_match == Find(content, EnMarker)
    IN  [zh |-> IF zh_match # 0 /\ en_match # 0
                THEN Strip(Slice(content, zh_match + 1, en_match - 1))
                ELSE IF zh_match # 0
                THEN Strip(Slice(content, zh_match + 1, Len(content)))
                ELSE <<>>,
         en |-> IF en_match # 0
                THEN Strip(Slice(content, en_match + 1, Len(content)))
                ELSE <<>>]

NeverEmpty(abstract) == FALSE

\* the test `not abstract`
IsEmpty(abstract) == Falsy(abstract)

\* AbstractSummarizer._summarize_paper; called says whether the model was asked
SummarizePaper(paper, reply) ==
    LET abstract == Get(paper, "abstract", <<>>)
    IN  IF IsEmpty(abstract)
        THEN [zh |-> AbstractUnavailableZh, en |-> AbstractUnavailableEn,
              called |-> FALSE]
        ELSE IF reply.kind = "error"
        THEN [zh |-> SummaryFailedZh, en |-> SummaryFailedEn, called |-> TRUE]
        ELSE [zh |-> ParseSummary(reply.content).zh,
              en |-> ParseSummary(reply.content).en,
              called |-> TRUE]

\* the loop of summarize_batch
RECURSIVE SummarizeLoop(_, _, _, _)
SummarizeLoop(papers, replies, results, calls) ==
    IF papers = <<>> THEN [papers |-> results, calls |-> calls]
    ELSE LET paper == Head(papers)
             summary == SummarizePaper(paper, Head(replies))
             done == Put(Put(paper, "summary_zh", summary.zh), "summary_en", summary.en)
         IN  SummarizeLoop(Tail(papers), Tail(replies), Append(results, done),
                           IF summary.called THEN Append(calls, paper) ELSE calls)

\* AbstractSummarizer.summarize_batch
SummarizeBatch(client, papers, replies) ==
    IF ~client THEN [papers |-> papers, calls |-> <<>>]
    ELSE SummarizeLoop(papers, replies, <<>>, <<>>)

\* ---- inputs of the summarizer specification

SummarizerPapers ==
    { [title |-> <<"a">>, abstract |-> <<>>],
      [title |-> <<"b">>],
      [title |-> <<"a">>, abstract |-> <<"x">>],
      [title |-> <<"b">>, abstract |-> <<"y">>, summary_zh |-> <<"old">>] }

\* what a model completion can come back with: an exception, or a reply text
\* with both section markers, one of them, or neither
SummaryReplies ==
    {[kind |-> "error", content |-> <<>>]}
    \cup {[kind |-> "content", content |-> c] :
            c \in {<<ZhMarker, " ", "z", " ", EnMarker, " ", "e">>,
                   <<ZhMarker, "z">>,
                   <<"e">>,
                   <<>>}}

NoReply == [kind |-> "none", content |-> <<>>]

\* the replies a batch can get: one per paper the model is asked about
RepliesFor(client, papers) ==
    {replies \in [1..Len(papers) -> SummaryReplies \cup {NoReply}] :
        \A i \in 1..Len(papers) :
            (replies[i] = NoReply) <=>
                (~client \/ IsEmpty(Get(papers[i], "abstract", <<>>)))}

SmStart ==
    /\ sm_client \in BOOLEAN
    /\ sm_papers \in SeqsUpTo(SummarizerPapers, MaxPapers)
    /\ sm_result = <<>>
    /\ sm_calls = <<>>
    /\ sm_pc = "ready"

\* summarize_batch(papers)
SmSummarizeBatch ==
    /\ sm_pc = "ready"
    /\ \E replies \in RepliesFor(sm_client, sm_papers) :
          LET out == SummarizeBatch(sm_client, sm_papers, replies)
          IN  /\ sm_result' = out.papers
              /\ sm_calls' = out.calls
    /\ sm_pc' = "done"
    /\ UNCHANGED <<sm_client, sm_papers>>
    /\ UNCHANGED NotSm

\* ------------------------------------------------------------ EmailSender

\* config.email_subject.format(date=..., count=...), with the default
\* "PaperSeeker: {date} Papers ({count})"
Subject(date_str, count) == [date |-> date_str, count |-> count]

\* score_color of _build_html_content: three tiers by score
ScoreColor(score) ==
    IF score >= 4 THEN "#4CAF50" ELSE IF score >= 3 THEN "#2196F3" ELSE "#FF9800"

\* one paper-card of _build_html_content
PaperRow(i, paper) ==
    [number |-> i,
     score |-> Get(paper, "relevance_score", 0),
     score_color |-> ScoreColor(Get(paper, "relevance_score", 0)),
     title |-> Get(paper, "title", <<"Untitled">>),
     journal |-> Get(paper, "journal", <<"Unknown Journal">>),
     summary_zh |-> Get(paper, "summary_zh", <<>>),
     summary_en |-> Get(paper, "summary_en", <<>>),
     openalex_url |-> Get(paper, "openalex_url", <<>>)]

\* EmailSender._build_html_content: the digest template around one
\* paper-card per paper
BuildHtmlContent(papers, date_str) ==
    [heading |-> "PaperSeeker",
     date |-> date_str,
     rows |-> [i \in 1..Len(papers) |-> PaperRow(i, papers[i])]]

EmptyResultAsDigest(date_str) == BuildHtmlContent(<<>>, date_str)

\* the html_content of send_empty_result
EmptyResultHtml(date_str) ==
    [heading |-> "No Relevant Papers Found", date |-> date_str, rows |-> <<>>]

\* the html_content of send_test
TestHtml == [heading |-> "PaperSeeker Test", date |-> "", rows |-> <<>>]

\* how the SMTP session of _send_email can go: smtplib.SMTP(...) cannot
\* connect, the session is opened and starttls/login/sendmail raises, or the
\* message is delivered
SmtpOutcomes == {"connect_failed", "session_failed", "sent"}

\* a transport that delivers every message twice
SendEmailTwice(subject, html_content, smtp) ==
    [built |-> <<html_content>>,
     sessions |-> <<smtp>>,
     outbox |-> IF smtp = "sent"
                THEN <<[subject |-> subject, html |-> html_content],
                       [subject |-> subject, html |-> html_content]>>
                ELSE <<>>,
     returned |-> (smtp = "sent")]

\* EmailSender._send_email: what is appended to the documents built, to the
\* sessions and to the outbox, and the value returned
SendEmail(subject, html_content, smtp) ==
    [built |-> <<html_content>>,
     sessions |-> <<smtp>>,
     outbox |-> IF smtp = "sent"
                THEN <<[subject |-> subject, html |-> html_content]>>
                ELSE <<>>,
     returned |-> (smtp = "sent")]

NothingSent == [built |-> <<>>, sessions |-> <<>>, outbox |-> <<>>, returned |-> FALSE]

\* EmailSender.send
Send(sender, recipient, papers, date_str, smtp) ==
    IF sender = "" \/ recipient = ""
    THEN NothingSent
    ELSE SendEmail(Subject(date_str, Len(papers)),
                   BuildHtmlContent(papers, date_str), smtp)

\* EmailSender.send_empty_result
SendEmptyResult(date_str, smtp) ==
    SendEmail(Subject(date_str, 0), EmptyResultHtml(date_str), smtp)

\* EmailSender.send_test
SendTest(smtp) == SendEmail("PaperSeeker Test Email", TestHtml, smtp)

\* ---- inputs of the notifier specification

Addresses == {"", "me@example.org"}
DateStrings == {"2024-01-01", "2024-01-02"}

DigestPapers ==
    { [title |-> <<"a">>, relevance_score |-> 4,
       summary_zh |-> <<"z">>, summary_en |-> <<"e">>],
      [title |-> <<"b">>, relevance_score |-> 2] }

NtStart ==
    /\ sender_email \in Addresses
    /\ recipient_email \in Addresses
    /\ nt_call = [op |-> "none", papers |-> <<>>, date |-> ""]
    /\ nt_built = <<>>
    /\ nt_sessions = <<>>
    /\ nt_outbox = <<>>
    /\ nt_returned = FALSE
    /\ nt_pc = "ready"

\* the effect of one call on the notifier's variables
NtEffect(call, out) ==
    /\ nt_call' = call
    /\ nt_built' = nt_built \o out.built
    /\ nt_sessions' = nt_sessions \o out.sessions
    /\ nt_outbox' = nt_outbox \o out.outbox
    /\ nt_returned' = out.returned
    /\ UNCHANGED <<sender_email, recipient_email>>

\* send(papers, date_str)
NtSend ==
    /\ nt_pc = "ready"
    /\ \E papers \in SeqsUpTo(DigestPapers, MaxPapers), date_str \in DateStrings,
          smtp \in SmtpOutcomes :
          NtEffect([op |-> "send", papers |-> papers, date |-> date_str],
                   Send(sender_email, recipient_email, papers, date_str, smtp))
    /\ nt_pc' = "done"
    /\ UNCHANGED NotNt

\* send_empty_result(date_str)
NtSendEmptyResult ==
    /\ nt_pc = "ready"
    /\ \E date_str \in DateStrings, smtp \in SmtpOutcomes :
          NtEffect([op |-> "send_empty_result", papers |-> <<>>, date |-> date_str],
                   SendEmptyResult(date_str, smtp))
    /\ nt_pc' = "done"
    /\ UNCHANGED NotNt

\* send_test()
NtSendTest ==
    /\ nt_pc = "ready"
    /\ \E smtp \in SmtpOutcomes :
          NtEffect([op |-> "send_test", papers |-> <<>>, date |-> ""], SendTest(smtp))
    /\ nt_pc' = "done"
    /\ UNCHANGED NotNt

\* ------------------------------------------------------------ PaperFilter

\* A model reply is a sequence of tokens: each is one character, but for the
\* two markers.  ScoreMarker stands for "评分", ReasonMarker for "理由".
ScoreMarker == "[score-marker]"
ReasonMarker == "[reason-marker]"

\* [:：]
Colons == {":", "[fullwidth-colon]"}

Newline == "[newline]"

\* \s
Whitespace == {" ", Newline}

\* \d
Digits == {"0", "1", "2", "3", "4", "5", "6", "7", "8", "9"}

DigitValue(c) ==
    CASE c = "0" -> 0 [] c = "1" -> 1 [] c = "2" -> 2 [] c = "3" -> 3 [] c = "4" -> 4
      [] c = "5" -> 5 [] c = "6" -> 6 [] c = "7" -> 7 [] c = "8" -> 8 [] c = "9" -> 9

\* the first place from i on whose token is not in S
RECURSIVE SkipWhile(_, _, _)
SkipWhile(content, i, S) ==
    IF i <= Len(content) /\ content[i] \in S
    THEN SkipWhile(content, i + 1, S)
    ELSE i

\* int() of the digits from i on
RECURSIVE ReadInt(_, _, _)
ReadInt(content, i, acc) ==
    IF i <= Len(content) /\ content[i] \in Digits
    THEN ReadInt(content, i + 1, 10 * acc + DigitValue(content[i]))
    ELSE acc

\* a score pattern without its \s*
ScoreGroupAtNoWhitespace(content, i) ==
    IF content[i] # ScoreMarker THEN 0
    ELSE LET a == IF i + 1 <= Len(content) /\ content[i + 1] \in Colons
                  THEN i + 2 ELSE i + 1
         IN  IF a <= Len(content) /\ content[a] \in Digits THEN a ELSE 0

\* where group 1 of the score pattern starts when the pattern matches at i,
\* else 0
ScoreGroupAt(content, i) ==
    IF content[i] # ScoreMarker THEN 0
    ELSE LET a == IF i + 1 <= Len(content) /\ content[i + 1] \in Colons
                  THEN i + 2 ELSE i + 1
             d == SkipWhile(content, a, Whitespace)
         IN  IF d <= Len(content) /\ content[d] \in Digits THEN d ELSE 0

\* the last place in b..(end of the whitespace run from b) that "." can match
DotStartFrom(content, b) ==
    LET c == SkipWhile(content, b, Whitespace)
        ks == {k \in b..c : k <= Len(content) /\ content[k] # Newline}
    IN  IF ks = {} THEN 0 ELSE CHOOSE k \in ks : \A j \in ks : j <= k

\* where group 1 of the reason pattern starts when the pattern matches at i,
\* else 0: the colon and the whitespace are taken when the rest still matches
ReasonGroupAt(content, i) ==
    IF content[i] # ReasonMarker THEN 0
    ELSE IF i + 1 <= Len(content) /\ content[i + 1] \in Colons
         THEN (IF DotStartFrom(content, i + 2) # 0
               THEN DotStartFrom(content, i + 2)
               ELSE i + 1)
         ELSE DotStartFrom(content, i + 1)

\* re.search: the leftmost place where the pattern matches, 0 for None
FirstMatch(ms) == IF ms = {} THEN 0 ELSE CHOOSE i \in ms : \A j \in ms : i <= j

\* the score when the reply names none, and when the call fails
DefaultScore == 3

ParseResponseNoDefault(content) ==
    [score |-> 0, reason |-> content]

\* "Parse response" of filter_single
ParseResponse(content) ==
    LET score_match ==
            FirstMatch({i \in 1..Len(content) : ScoreGroupAt(content, i) # 0})
        reason_match ==
            FirstMatch({i \in 1..Len(content) : ReasonGroupAt(content, i) # 0})
        g == ReasonGroupAt(content, reason_match)
    IN  [score |-> IF score_match # 0
                   THEN ReadInt(content, ScoreGroupAt(content, score_match), 0)
                   ELSE DefaultScore,
         reason |-> IF reason_match # 0
                    THEN Strip(Slice(content, g,
                                     SkipWhile(content, g, {t \in Range(content) :
                                                               t # Newline}) - 1))
                    ELSE content]

\* PaperFilter.filter_single, given what the model call came back with
FilterSingle(client, reply) ==
    IF ~client THEN [score |-> 3, reason |-> <<"No API key">>]
    ELSE IF reply.kind = "error"
    THEN [score |-> DefaultScore, reason |-> <<"Error: ", "e">>]
    ELSE ParseResponse(reply.content)

\* the f-string of the user message slices the abstract before the call is
\* made: abstract[:2000] on None is a TypeError, which the except clause of
\* filter_single turns into the default result
FormatRaises(paper) == Get(paper, "abstract", <<>>) = None
ReplyTo(paper, reply) ==
    IF FormatRaises(paper) THEN [kind |-> "error", content |-> <<>>] ELSE reply

\* a loop that keeps the score a record came with
RECURSIVE AiFilterLoopKeepingScore(_, _, _, _, _)
AiFilterLoopKeepingScore(papers, threshold, replies, filtered, calls) ==
    IF papers = <<>> THEN [papers |-> filtered, calls |-> calls]
    ELSE LET paper == Head(papers)
             result == FilterSingle(TRUE, ReplyTo(paper, Head(replies)))
         IN  AiFilterLoopKeepingScore(Tail(papers), threshold, Tail(replies),
                 IF Keeps(result.score, threshold)
                 THEN Append(filtered,
                             Put(Put(paper, "relevance_score",
                                     Get(paper, "relevance_score", result.score)),
                                 "relevance_reason", result.reason))
                 ELSE filtered,
                 IF FormatRaises(paper) THEN calls ELSE calls + 1)

\* the loop of PaperFilter.filter_batch; calls counts the model calls
RECURSIVE AiFilterLoop(_, _, _, _, _)
AiFilterLoop(papers, threshold, replies, filtered, calls) ==
    IF papers = <<>> THEN [papers |-> filtered, calls |-> calls]
    ELSE LET paper == Head(papers)
             result == FilterSingle(TRUE, ReplyTo(paper, Head(replies)))
         IN  AiFilterLoop(Tail(papers), threshold, Tail(replies),
                 IF Keeps(result.score, threshold)
                 THEN Append(filtered,
                             Put(Put(paper, "relevance_score", result.score),
                                 "relevance_reason", result.reason))
                 ELSE filtered,
                 IF FormatRaises(paper) THEN calls ELSE calls + 1)

AiFilterBatchAlways(client, papers, threshold, replies) ==
    AiFilterLoop(papers, threshold, replies, <<>>, 0)

\* PaperFilter.filter_batch
AiFilterBatch(client, papers, threshold, replies) ==
    IF ~client THEN [papers |-> papers, calls |-> 0]
    ELSE AiFilterLoop(papers, threshold, replies, <<>>, 0)

\* PaperFilter.__init__: a client only for a non-empty api_key
Client(api_key) == api_key # ""

\* ---- inputs of the PaperFilter specification

\* records as they reach the filter: fresh, scored by the keyword filter, and
\* scored and explained by an earlier run of this filter
PfPapers ==
    { [title |-> <<"a">>, abstract |-> <<"x">>],
      [title |-> <<"b">>, abstract |-> <<>>, relevance_score |-> 1],
      [title |-> <<"c">>, relevance_score |-> 5, relevance_reason |-> <<"old">>] }

\* what a model call can come back with; said is the score the reply names,
\* 0 when it names none, and why the rationale it gives
PfReplies ==
    {[kind |-> "error", said |-> 0, why |-> <<>>, content |-> <<>>],
     [kind |-> "content", said |-> 5, why |-> <<"r">>,
      content |-> <<ScoreMarker, ":", " ", "5", Newline, ReasonMarker, ":", " ", "r">>],
     [kind |-> "content", said |-> 2, why |-> <<"r">>,
      content |-> <<"x", ScoreMarker, "[fullwidth-colon]", "2", " ", ReasonMarker, "r", " ">>],
     [kind |-> "content", said |-> 10, why |-> <<ScoreMarker, " ", "1", "0">>,
      content |-> <<ReasonMarker, Newline, ScoreMarker, " ", "1", "0">>],
     [kind |-> "content", said |-> 0, why |-> <<ScoreMarker, ":", "x">>,
      content |-> <<ScoreMarker, ":", "x">>]}

PfNoReply == [kind |-> "none", said |-> 0, why |-> <<>>, content |-> <<>>]

\* the replies a batch can get: one per paper when there is a client
PfRepliesFor(client, papers) ==
    IF client THEN [1..Len(papers) -> PfReplies]
    ELSE {[i \in 1..Len(papers) |-> PfNoReply]}

PfThresholds == {1, 3, 4}

PfStart ==
    /\ pf_api_key \in {"", "key"}
    /\ pf_client = Client(pf_api_key)
    /\ pf_papers \in SeqsUpTo(PfPapers, MaxPapers)
    /\ pf_threshold \in PfThresholds
    /\ pf_replies = <<>>
    /\ pf_result = <<>>
    /\ pf_calls = 0
    /\ pf_pc = "ready"

\* filter_batch(papers, threshold)
PfFilterBatch ==
    /\ pf_pc = "ready"
    /\ \E replies \in PfRepliesFor(pf_client, pf_papers) :
          LET out == AiFilterBatch(pf_client, pf_papers, pf_threshold, replies)
          IN  /\ pf_replies' = replies
              /\ pf_result' = out.papers
              /\ pf_calls' = out.calls
    /\ pf_pc' = "done"
    /\ UNCHANGED <<pf_api_key, pf_client, pf_papers, pf_threshold>>
    /\ UNCHANGED NotPf

\* ---- inputs of the _parse_work specification

\* a payload's entry for key k: none when the key is absent (choice 0), null
\* (choice 1), or a value
Entry(k, choice, null, value) ==
    IF choice = 0 THEN <<>> ELSE IF choice = 1 THEN k :> null ELSE k :> value

\* the journal entry, which can also be an empty object (choice 2)
JournalEntry(choice) ==
    IF choice = 2 THEN "journal" :> <<>>
    ELSE Entry("journal", choice, NoneObject, [display_name |-> <<"j">>])

\* provider payloads with a title, in which the identifier, the abstract, the
\* journal and the publication date are each absent, null or given
PwWorks ==
    {Entry("id", id, None, <<"o", "/", "W", "1">>)
        @@ Entry("abstract", abstract, None, <<"a">>)
        @@ JournalEntry(journal)
        @@ Entry("publication_date", publication_date, NoneDate, 5)
        @@ ("title" :> <<"t">>) :
        id \in 0..2, abstract \in 0..2, journal \in 0..3, publication_date \in 0..2}

PwStart ==
    /\ pw_work \in PwWorks
    /\ pw_record = <<>>
    /\ pw_pc = "ready"

\* _parse_work(work)
PwParseWork ==
    /\ pw_pc = "ready"
    /\ pw_record' = ParseWork(pw_work)
    /\ pw_pc' = "returned"
    /\ UNCHANGED pw_work
    /\ UNCHANGED NotPw

\* ---- inputs of the filter_single specification

\* the characters a reply is made of: the two labels, both colons, blank,
\* line break, two digits and one other character
ReplyTokens ==
    {ScoreMarker, ReasonMarker, ":", "[fullwidth-colon]", " ", Newline,
     "5", "1", "x"}

\* what the model call can come back with: an exception (the call fails, or
\* the response has no choices), or a reply text; a content of None is the
\* empty text after `or ""`
PrReplies ==
    {[kind |-> "error", content |-> <<>>]}
    \cup {[kind |-> "content", content |-> c] : c \in SeqsUpTo(ReplyTokens, MaxReplyLen)}

PrStart ==
    /\ pr_reply \in PrReplies
    /\ pr_result = <<>>
    /\ pr_pc = "ready"

\* filter_single(title, abstract) on a filter with a client
PrFilterSingle ==
    /\ pr_pc = "ready"
    /\ pr_result' = FilterSingle(TRUE, pr_reply)
    /\ pr_pc' = "returned"
    /\ UNCHANGED pr_reply
    /\ UNCHANGED NotPr

\* ------------------------------------------------------------- daily_task

\* the for loop of OpenAlexSearcher.search and what follows it, as one call;
\* replies gives, per keyword, the replies its requests get
RECURSIVE SearchLoop(_, _, _, _, _, _)
SearchLoop(kws, frame, replies, found, seen, queries) ==
    IF kws = <<>> THEN Returned(SortNewestFirst(found, <<>>), queries)
    ELSE IF "to_dt" \notin DOMAIN frame THEN Raised("UnboundLocalError", queries)
    ELSE LET got == SearchSingleKeyword(Head(kws), frame["from_dt"], frame["to_dt"],
                                        Head(replies).primary, Head(replies).rest)
             dd == Dedupe(got.papers, seen, <<>>)
         IN  IF got.error # ""
             THEN Raised(got.error, queries \o got.queries)
             ELSE SearchLoop(Tail(kws), frame, Tail(replies),
                             found \o dd.new_papers, dd.seen_ids,
                             queries \o got.queries)

\* OpenAlexSearcher.search
Search(kws, days_back, from_date, to_date, replies) ==
    SearchLoop(kws, DateWindow(from_date, to_date, days_back), replies,
               <<>>, {}, <<>>)

\* `a or b` on dates and day counts: None, "" and 0 are falsy
Or(a, b) == IF a # NoDate THEN a ELSE b

\* strftime("%Y-%m-%d")
Strftime(day) == [format |-> "%Y-%m-%d", day |-> day]

WithoutSummaryOverlapping(ps, summarize_threshold) ==
    SelectSeq(ps, LAMBDA p : Get(p, "relevance_score", 0) <= summarize_threshold)

ForSummaryAll(ps, summarize_threshold) == ps

\* the two list comprehensions that split filtered_papers by the summarize
\* threshold
ForSummary(ps, summarize_threshold) ==
    SelectSeq(ps, LAMBDA p : Get(p, "relevance_score", 0) >= summarize_threshold)
WithoutSummary(ps, summarize_threshold) ==
    SelectSeq(ps, LAMBDA p : Get(p, "relevance_score", 0) < summarize_threshold)

\* "（相关性较低，仅保留基本信息）"
LowRelevanceZh == <<"(zh: low relevance, basic info only)">>
LowRelevanceEn == <<"(Low relevance, basic info only)">>

\* a loop that appends none of the low-score records
MarkLowRelevanceDropping(ps) == <<>>

\* "Low-score papers without summary"
MarkLowRelevance(ps) ==
    [i \in 1..Len(ps) |->
        Put(Put(ps[i], "summary_zh", LowRelevanceZh), "summary_en", LowRelevanceEn)]

\* None[:300] is a TypeError, and nothing in daily_task catches it: the index
\* of the first record of ps the loop below fails on, 0 when it fails on none
SliceRaisesAt(ps) ==
    IF \E i \in 1..Len(ps) : Get(ps[i], "abstract", <<>>) = None
    THEN CHOOSE i \in 1..Len(ps) :
            /\ Get(ps[i], "abstract", <<>>) = None
            /\ \A j \in 1..(i - 1) : Get(ps[j], "abstract", <<>>) # None
    ELSE 0

\* "No API key, use original abstract"
UseOriginalAbstract(ps) ==
    [i \in 1..Len(ps) |->
        Put(Put(ps[i], "summary_zh",
                Slice(Get(ps[i], "abstract", <<>>), 1,
                      IF Len(Get(ps[i], "abstract", <<>>)) < 300
                      THEN Len(Get(ps[i], "abstract", <<>>)) ELSE 300)
                \o <<"...">>),
            "summary_en", <<"(No English summary available)">>)]

\* the assignments a loop over ps makes: summary_zh, then summary_en, of each
\* record in turn
RECURSIVE Writes(_)
Writes(ps) ==
    IF ps = <<>> THEN <<>>
    ELSE <<[id |-> Get(Head(ps), "id", <<>>), field |-> "summary_zh"],
           [id |-> Get(Head(ps), "id", <<>>), field |-> "summary_en"]>>
         \o Writes(Tail(ps))

\* n events of one kind
Events(kind, n) == [i \in 1..n |-> kind]

\* ---- inputs of the daily_task specification

\* provider payloads: one matching both research keywords and without an
\* abstract, one matching one keyword in its abstract, and one matching both
\* whose abstract the provider gave as null
DtWorks ==
    <<[id |-> <<"o", "/", "W", "1">>, title |-> <<"A", " ", "b">>,
       publication_date |-> 5],
      [id |-> <<"o", "/", "W", "2">>, title |-> <<"c">>, abstract |-> <<"a">>,
       publication_date |-> 7],
      [id |-> <<"o", "/", "W", "3">>, title |-> <<"A", " ", "b">>,
       abstract |-> None, publication_date |-> 6]>>

\* what one keyword's requests can get: result lists, errors on both
\* requests, or an error reply with "data": null
DtSearchReplies ==
    {[primary |-> [kind |-> "json", data |-> "object", errors |-> FALSE, works |-> ws],
      rest |-> [kind |-> "json", works |-> <<>>]] :
        ws \in {<<>>, <<DtWorks[1]>>, <<DtWorks[1], DtWorks[2]>>,
                <<DtWorks[3]>>, <<DtWorks[3], DtWorks[2]>>}}
    \cup {[primary |-> [kind |-> "transport_error", data |-> "missing",
                        errors |-> FALSE, works |-> <<>>],
           rest |-> [kind |-> "http_error", works |-> <<>>]],
          [primary |-> [kind |-> "json", data |-> "null", errors |-> TRUE,
                        works |-> <<>>],
           rest |-> [kind |-> "json", works |-> <<>>]]}

\* what the relevance model can come back with
AiReplies ==
    {[kind |-> "error", content |-> <<>>],
     [kind |-> "content",
      content |-> <<ScoreMarker, ":", " ", "5", Newline, ReasonMarker, ":", "r">>],
     [kind |-> "content", content |-> <<ScoreMarker, " ", "4">>],
     [kind |-> "content", content |-> <<ScoreMarker, "2">>]}

\* what the summary model can come back with
DtSummaryReplies ==
    {[kind |-> "error", content |-> <<>>],
     [kind |-> "content", content |-> <<ZhMarker, "z", EnMarker, "e">>]}

Configs ==
    [research_keywords : {<<<<"a">>, <<"B">>>>},
     exclude_keywords : {<<>>},
     llm_api_key : {"", "key"},
     relevance_threshold : {1, 3},
     summarize_threshold : {4},
     days_back : {1},
     from_date : {NoDate},
     to_date : {NoDate, 9},
     sender_email : {"me@example.org"},
     recipient_email : Addresses]

Args ==
    {[from_date |-> NoDate, to_date |-> NoDate, days_back |-> 0],
     [from_date |-> 5, to_date |-> 9, days_back |-> 0],
     [from_date |-> NoDate, to_date |-> NoDate, days_back |-> 7]}

DtStart ==
    /\ config \in Configs
    /\ dt_args \in Args
    /\ dt_papers = <<>>
    /\ filtered_papers = <<>>
    /\ papers_with_summary = <<>>
    /\ dt_events = <<>>
    /\ dt_writes = <<>>
    /\ dt_ai_scores = <<>>
    /\ dt_summary_calls = <<>>
    /\ dt_built = <<>>
    /\ dt_outbox = <<>>
    /\ dt_error = ""
    /\ dt_pc = "start"

AfterProbeIgnored(reachable) == "search"

\* where the run goes after the probe: on, or out through the except clause
AfterProbe(reachable) == IF reachable THEN "search" ELSE "aborted"

\* "Test email connection": the socket connects, or the run is aborted
DtProbe ==
    /\ dt_pc = "start"
    /\ \E reachable \in BOOLEAN :
          /\ dt_events' = Append(dt_events,
                                 IF reachable THEN "probe" ELSE "probe_failed")
          /\ dt_pc' = AfterProbe(reachable)
    /\ UNCHANGED <<config, dt_args, dt_summary_calls, dt_writes, dt_ai_scores, dt_papers, filtered_papers, papers_with_summary,
                   dt_built, dt_outbox, dt_error>>
    /\ UNCHANGED NotDt

\* "Search papers": searcher.search(...) returns or raises
DtSearch ==
    /\ dt_pc = "search"
    /\ \E replies \in [1..Len(config.research_keywords) -> DtSearchReplies] :
          LET out == Search(config.research_keywords,
                            Or(dt_args.days_back, config.days_back),
                            Or(dt_args.from_date, config.from_date),
                            Or(dt_args.to_date, config.to_date),
                            replies)
          IN  /\ dt_events' = dt_events \o Events("query", Len(out.queries))
              /\ dt_error' = out.error
              /\ dt_papers' = out.papers
              /\ dt_pc' = IF out.error # "" THEN "raised" ELSE "found"
    /\ UNCHANGED <<config, dt_args, dt_summary_calls, dt_writes, dt_ai_scores, filtered_papers, papers_with_summary,
                   dt_built, dt_outbox>>
    /\ UNCHANGED NotDt

\* `if not papers: ... return`
DtNoPapers ==
    /\ dt_pc = "found"
    /\ dt_papers = <<>>
    /\ dt_pc' = "done"
    /\ UNCHANGED <<config, dt_args, dt_summary_calls, dt_writes, dt_ai_scores, dt_papers, filtered_papers, papers_with_summary,
                   dt_events, dt_built, dt_outbox, dt_error>>
    /\ UNCHANGED NotDt

\* "Filter papers (keyword pre-filter + AI refinement)"
DtFilter ==
    /\ dt_pc = "found"
    /\ dt_papers # <<>>
    /\ LET kws == LowerAll(config.research_keywords)
           exs == LowerAll(config.exclude_keywords)
       IN  IF config.llm_api_key # ""
           THEN LET candidates == KeywordFilterBatch(kws, exs, dt_papers, 1)
                IN  \E replies \in [1..Len(candidates) -> AiReplies] :
                       LET out == AiFilterBatch(TRUE, candidates,
                                                config.relevance_threshold, replies)
                       IN  /\ filtered_papers' = out.papers
                           /\ dt_ai_scores' =
                                  [i \in 1..Len(candidates) |->
                                      [id |-> candidates[i]["id"],
                                       score |-> FilterSingle(TRUE,
                                                     ReplyTo(candidates[i], replies[i])).score]]
                           /\ dt_events' = dt_events \o Events("filter_call", out.calls)
           ELSE /\ filtered_papers' =
                       KeywordFilterBatch(kws, exs, dt_papers, config.relevance_threshold)
                /\ UNCHANGED <<dt_events, dt_ai_scores>>
    /\ dt_pc' = "filtered"
    /\ UNCHANGED <<config, dt_args, dt_summary_calls, dt_writes, dt_papers, papers_with_summary,
                   dt_built, dt_outbox, dt_error>>
    /\ UNCHANGED NotDt

\* what one call on the EmailSender adds to the run
DtMail(out) ==
    /\ dt_built' = dt_built \o out.built
    /\ dt_outbox' = dt_outbox \o out.outbox
    /\ dt_events' = dt_events \o Events("session", Len(out.sessions))
                              \o Events("mail", Len(out.outbox))

\* `if not filtered_papers:` send_empty_result for yesterday, and return
DtSendEmptyResult ==
    /\ dt_pc = "filtered"
    /\ filtered_papers = <<>>
    /\ \E smtp \in SmtpOutcomes :
          DtMail(SendEmptyResult(Strftime(Today - 1), smtp))
    /\ dt_pc' = "done"
    /\ UNCHANGED <<config, dt_args, dt_summary_calls, dt_writes, dt_ai_scores, dt_papers, filtered_papers, papers_with_summary,
                   dt_error>>
    /\ UNCHANGED NotDt

\* the replies a summarize_batch call of the run can get
DtRepliesFor(ps) ==
    {replies \in [1..Len(ps) -> DtSummaryReplies \cup {NoReply}] :
        \A i \in 1..Len(ps) :
            (replies[i] = NoReply) <=> IsEmpty(Get(ps[i], "abstract", <<>>))}

\* "Generate summaries (only for high-score papers)"
DtSummarize ==
    /\ dt_pc = "filtered"
    /\ filtered_papers # <<>>
    /\ LET papers_for_summary == ForSummary(filtered_papers, config.summarize_threshold)
           papers_without_summary ==
               WithoutSummary(filtered_papers, config.summarize_threshold)
       IN  IF config.llm_api_key # ""
           THEN \E replies \in DtRepliesFor(papers_for_summary) :
                   LET out == SummarizeBatch(TRUE, papers_for_summary, replies)
                   IN  /\ papers_with_summary' =
                              out.papers \o MarkLowRelevance(papers_without_summary)
                       /\ dt_writes' = dt_writes \o Writes(papers_for_summary)
                                                 \o Writes(papers_without_summary)
                       /\ dt_summary_calls' =
                              [i \in 1..Len(out.calls) |-> out.calls[i]["id"]]
                       /\ dt_events' =
                              dt_events \o Events("summary_call", Len(out.calls))
                       /\ dt_pc' = "summarized"
                       /\ UNCHANGED dt_error
           ELSE IF SliceRaisesAt(filtered_papers) # 0
           THEN /\ dt_writes' =
                       dt_writes \o Writes(SubSeq(filtered_papers, 1,
                                                  SliceRaisesAt(filtered_papers) - 1))
                /\ dt_error' = "TypeError"
                /\ dt_pc' = "raised"
                /\ UNCHANGED <<papers_with_summary, dt_events, dt_summary_calls>>
           ELSE /\ papers_with_summary' = UseOriginalAbstract(filtered_papers)
                /\ dt_writes' = dt_writes \o Writes(filtered_papers)
                /\ dt_pc' = "summarized"
                /\ UNCHANGED <<dt_events, dt_summary_calls, dt_error>>
    /\ UNCHANGED <<config, dt_args, dt_ai_scores, dt_papers, filtered_papers,
                   dt_built, dt_outbox>>
    /\ UNCHANGED NotDt

\* "Send email"
DtSend ==
    /\ dt_pc = "summarized"
    /\ \E smtp \in SmtpOutcomes :
          DtMail(Send(config.sender_email, config.recipient_email,
                      papers_with_summary, Strftime(Today), smtp))
    /\ dt_pc' = "done"
    /\ UNCHANGED <<config, dt_args, dt_summary_calls, dt_writes, dt_ai_scores, dt_papers, filtered_papers, papers_with_summary,
                   dt_error>>
    /\ UNCHANGED NotDt

\* ----------------------------------------------------------- specifications

KfIdle ==
    /\ cfg_keywords = <<>>
    /\ cfg_exclude = <<>>
    /\ keywords = <<>>
    /\ exclude_keywords = <<>>
    /\ kf_papers = <<>>
    /\ kf_threshold = 0
    /\ kf_filtered = <<>>
    /\ kf_scores = <<>>
    /\ kf_refiltered = <<>>
    /\ kf_pc = "idle"

SIdle ==
    /\ s_keywords = <<>>
    /\ s_days_back = 1
    /\ s_from_date = NoDate
    /\ s_to_date = NoDate
    /\ s_frame = <<>>
    /\ all_papers = <<>>
    /\ seen_ids = {}
    /\ s_idx = 0
    /\ s_queries = <<>>
    /\ s_fetched = <<>>
    /\ s_primary = <<>>
    /\ s_outcomes = <<>>
    /\ s_aggregated = <<>>
    /\ s_result = <<>>
    /\ s_error = ""
    /\ s_pc = "idle"

SmIdle ==
    /\ sm_client = FALSE
    /\ sm_papers = <<>>
    /\ sm_result = <<>>
    /\ sm_calls = <<>>
    /\ sm_pc = "idle"

NtIdle ==
    /\ sender_email = ""
    /\ recipient_email = ""
    /\ nt_call = [op |-> "none", papers |-> <<>>, date |-> ""]
    /\ nt_built = <<>>
    /\ nt_sessions = <<>>
    /\ nt_outbox = <<>>
    /\ nt_returned = FALSE
    /\ nt_pc = "idle"

PfIdle ==
    /\ pf_api_key = ""
    /\ pf_client = FALSE
    /\ pf_papers = <<>>
    /\ pf_threshold = 0
    /\ pf_replies = <<>>
    /\ pf_result = <<>>
    /\ pf_calls = 0
    /\ pf_pc = "idle"

DtIdle ==
    /\ config = <<>>
    /\ dt_args = <<>>
    /\ dt_papers = <<>>
    /\ filtered_papers = <<>>
    /\ papers_with_summary = <<>>
    /\ dt_events = <<>>
    /\ dt_writes = <<>>
    /\ dt_ai_scores = <<>>
    /\ dt_summary_calls = <<>>
    /\ dt_built = <<>>
    /\ dt_outbox = <<>>
    /\ dt_error = ""
    /\ dt_pc = "idle"

PrIdle ==
    /\ pr_reply = <<>>
    /\ pr_result = <<>>
    /\ pr_pc = "idle"

PwIdle ==
    /\ pw_work = <<>>
    /\ pw_record = <<>>
    /\ pw_pc = "idle"

\* a KeywordFilter, constructed, and the calls made on it
KfInit ==
    KfStart /\ SIdle /\ SmIdle /\ NtIdle /\ DtIdle /\ PfIdle /\ PrIdle /\ PwIdle
KfNext == KfFilterBatch \/ KfFilterAgain
SpecFilter == KfInit /\ [][KfNext]_vars

\* a KeywordFilter over the words of the scoring scenario, and one call on it
ScenarioInit ==
    ScenarioStart /\ SIdle /\ SmIdle /\ NtIdle /\ DtIdle /\ PfIdle /\ PrIdle /\ PwIdle
SpecScenario == ScenarioInit /\ [][KfNext]_vars

\* one call of OpenAlexSearcher.search
SInit ==
    SStart /\ KfIdle /\ SmIdle /\ NtIdle /\ DtIdle /\ PfIdle /\ PrIdle /\ PwIdle
SNext == SearchBegin \/ SearchKeywordUnbound \/ SearchKeyword \/ SearchReturn
SpecSearch == SInit /\ [][SNext]_vars

\* an AbstractSummarizer, constructed with or without an api_key, and one
\* call of summarize_batch
SmInit ==
    SmStart /\ KfIdle /\ SIdle /\ NtIdle /\ DtIdle /\ PfIdle /\ PrIdle /\ PwIdle
SmNext == SmSummarizeBatch
SpecSummarizer == SmInit /\ [][SmNext]_vars

\* an EmailSender, constructed from a configuration, and one call on it
NtInit ==
    NtStart /\ KfIdle /\ SIdle /\ SmIdle /\ DtIdle /\ PfIdle /\ PrIdle /\ PwIdle
NtNext == NtSend \/ NtSendEmptyResult \/ NtSendTest
SpecNotifier == NtInit /\ [][NtNext]_vars

\* a PaperFilter, constructed, and one call on it
PfInit ==
    PfStart /\ KfIdle /\ SIdle /\ SmIdle /\ NtIdle /\ DtIdle /\ PrIdle /\ PwIdle
PfNext == PfFilterBatch
SpecPaperFilter == PfInit /\ [][PfNext]_vars

\* one call of _parse_work
PwInit ==
    PwStart /\ KfIdle /\ SIdle /\ SmIdle /\ NtIdle /\ DtIdle /\ PfIdle /\ PrIdle
PwNext == PwParseWork
SpecParseWork == PwInit /\ [][PwNext]_vars

\* one call of filter_single on a PaperFilter with a client
PrInit ==
    PrStart /\ KfIdle /\ SIdle /\ SmIdle /\ NtIdle /\ DtIdle /\ PfIdle /\ PwIdle
PrNext == PrFilterSingle
SpecFilterSingle == PrInit /\ [][PrNext]_vars

\* one run of daily_task
Init ==
    DtStart /\ KfIdle /\ SIdle /\ SmIdle /\ NtIdle /\ PfIdle /\ PrIdle /\ PwIdle
Next ==
    \/ DtProbe
    \/ DtSearch
    \/ DtNoPapers
    \/ DtFilter
    \/ DtSendEmptyResult
    \/ DtSummarize
    \/ DtSend
Spec == Init /\ [][Next]_vars

\* ---------------------------------------------------------------- claims

\* number of entries of the configured list ks that occur, case-insensitively,
\* in the lowercased text blob
MatchCount(ks, text) ==
    Cardinality({i \in 1..Len(ks) : IsSubstring(LowerStr(ks[i]), text)})

ClosedFormScore(paper) ==
    LET text == LowerStr(GetText(paper))
    IN  Max(0, MatchCount(cfg_keywords, text) - 2 * MatchCount(cfg_exclude, text))

\* C1: the keyword score of a record is (number of configured keywords found
\* in its lowercased text blob) minus 2 times (number of configured exclusion
\* keywords found in it), floored at 0, and so never negative; this holds of
\* the value _score_paper returns and of every relevance_score filter_batch
\* attaches.
C1_ScoreClosedForm ==
    kf_pc = "done" =>
        /\ \A i \in 1..Len(kf_papers) :
              /\ kf_scores[i] = ClosedFormScore(kf_papers[i])
              /\ kf_scores[i] >= 0
        /\ \A j \in 1..Len(kf_filtered) :
              /\ kf_filtered[j]["relevance_score"] >= 0
              /\ \E i \in 1..Len(kf_papers) :
                    kf_filtered[j] = Put(kf_papers[i], "relevance_score",
                                         ClosedFormScore(kf_papers[i]))

\* C1 witness: a scored record with a matched keyword and two matched
\* exclusions, so that the floor at 0 decides the score.
C1_Witness ==
    /\ kf_pc = "done"
    /\ \E i \in 1..Len(kf_papers) :
          LET text == LowerStr(GetText(kf_papers[i]))
          IN  /\ MatchCount(cfg_keywords, text) >= 1
              /\ MatchCount(cfg_exclude, text) = 2
              /\ kf_scores[i] = 0

\* indices of the input records whose keyword score reaches the threshold
KeptIdx ==
    {i \in 1..Len(kf_papers) :
        ScorePaper(keywords, exclude_keywords, kf_papers[i]) >= kf_threshold}

\* the j-th smallest index of KeptIdx
NthKept(j) == CHOOSE i \in KeptIdx : Cardinality({k \in KeptIdx : k <= i}) = j

\* C2: filter_batch returns exactly the records whose keyword score is
\* >= threshold, in input order, each with that score attached as
\* relevance_score.
C2_FilterExact ==
    kf_pc = "done" =>
        /\ Len(kf_filtered) = Cardinality(KeptIdx)
        /\ \A j \in 1..Len(kf_filtered) :
              kf_filtered[j] =
                  Put(kf_papers[NthKept(j)], "relevance_score",
                      ScorePaper(keywords, exclude_keywords, kf_papers[NthKept(j)]))

\* C2 witness: of two different input records, the first is dropped and the
\* second, scoring exactly the threshold, is kept.
C2_Witness ==
    /\ kf_pc = "done"
    /\ Len(kf_papers) = 2
    /\ kf_threshold >= 1
    /\ KeptIdx = {2}
    /\ Len(kf_filtered) = 1
    /\ kf_filtered[1]["relevance_score"] = kf_threshold

\* the per-keyword results one after the other, in keyword order
RECURSIVE Flatten(_)
Flatten(lists) ==
    IF lists = <<>> THEN <<>> ELSE Head(lists) \o Flatten(Tail(lists))

\* the first record with identifier id among the per-keyword results
FirstFetched(id) ==
    LET flat == Flatten(s_fetched)
        first == CHOOSE j \in 1..Len(flat) :
                     /\ flat[j]["id"] = id
                     /\ \A k \in 1..(j - 1) : flat[k]["id"] # id
    IN  flat[first]

\* C3: the list search returns never holds two records with the same
\* normalized identifier, and the record kept for an identifier is its first
\* occurrence among the per-keyword results, in keyword order.
C3_DedupFirstWins ==
    s_pc = "done" =>
        /\ \A i, j \in 1..Len(s_result) :
              s_result[i]["id"] = s_result[j]["id"] => i = j
        /\ \A i \in 1..Len(s_result) :
              s_result[i] = FirstFetched(s_result[i]["id"])

\* C3 witness: two keywords returned different records with the same
\* normalized identifier, and search returned.
C3_Witness ==
    /\ s_pc = "done"
    /\ Len(s_fetched) = 2
    /\ \E a \in 1..Len(s_fetched[1]), b \in 1..Len(s_fetched[2]) :
          /\ s_fetched[1][a]["id"] = s_fetched[2][b]["id"]
          /\ s_fetched[1][a]["id"] # <<>>
          /\ s_fetched[1][a] # s_fetched[2][b]
    /\ Len(s_result) >= 1

\* the place of a record in the aggregation order
PlaceAggregated(paper) == CHOOSE k \in 1..Len(s_aggregated) : s_aggregated[k] = paper

\* C4: in the list search returns, publication dates never increase from one
\* record to the next, and records with equal publication dates are in the
\* order in which aggregation produced them.
C4_SortedNewestFirstStable ==
    s_pc = "done" =>
        /\ \A i \in 1..(Len(s_result) - 1) :
              s_result[i]["publication_date"] >= s_result[i + 1]["publication_date"]
        /\ Len(s_result) = Len(s_aggregated)
        /\ \A i \in 1..Len(s_result) : \E k \in 1..Len(s_aggregated) :
              s_aggregated[k] = s_result[i]
        /\ \A i, j \in 1..Len(s_result) :
              (i < j /\ s_result[i]["publication_date"] = s_result[j]["publication_date"])
                  => PlaceAggregated(s_result[i]) < PlaceAggregated(s_result[j])

\* C4 witness: the sort moved a newer record ahead of two records that share
\* a publication date.
C4_Witness ==
    /\ s_pc = "done"
    /\ Len(s_result) = 3
    /\ s_result # s_aggregated
    /\ s_result[2]["publication_date"] = s_result[3]["publication_date"]
    /\ s_result[1]["publication_date"] > s_result[2]["publication_date"]

\* C5: with no to_date, search completes normally and every query it issues
\* has end date today and start date today minus days_back.
C5_DefaultWindow ==
    s_to_date = NoDate =>
        /\ s_pc # "raised"
        /\ \A i \in 1..Len(s_queries) :
              /\ s_queries[i].to_date = Today
              /\ s_queries[i].from_date = DaysAgo(s_days_back)

\* C6: with a from_date given, the date window search uses starts at that
\* from_date, whether or not to_date is given.
C6_FromDatePriority ==
    (s_from_date # NoDate /\ s_pc \in {"loop", "sort", "done", "raised"}) =>
        /\ s_frame["from_dt"] = s_from_date
        /\ \A i \in 1..Len(s_queries) : s_queries[i].from_date = s_from_date

\* C7: a keyword whose requests failed does not abort search: it contributes
\* no record, the next keyword is still queried, and search returns.
C7_FailureIsolated ==
    \A i \in 1..Len(s_outcomes) :
        s_outcomes[i] = "failed" =>
            /\ s_pc # "raised"
            /\ s_idx >= i
            /\ s_fetched[i] = <<>>
            /\ (s_pc = "done" => s_idx = Len(s_keywords))

\* a record whose abstract is the empty string or is missing
HasNoAbstract(paper) == Get(paper, "abstract", <<>>) = <<>>

\* what C8 says of the records with an empty abstract after summarize_batch
EmptyAbstractsGetPlaceholders ==
    /\ \A i \in 1..Len(sm_papers) :
          HasNoAbstract(sm_papers[i]) =>
              /\ i \in 1..Len(sm_result)
              /\ Get(sm_result[i], "summary_zh", <<"unset">>) = AbstractUnavailableZh
              /\ Get(sm_result[i], "summary_en", <<"unset">>) = AbstractUnavailableEn
    /\ \A k \in 1..Len(sm_calls) : ~HasNoAbstract(sm_calls[k])

\* C8 as stated: summarizing a record whose abstract is empty makes no model
\* call and sets both summaries to the fixed placeholders.
C8_AsStated == sm_pc = "done" => EmptyAbstractsGetPlaceholders

\* C8 amended: a summarizer that has a model client does so; one without a
\* client makes no model call and returns the records as they were given.
C8_EmptyAbstractPlaceholders ==
    sm_pc = "done" =>
        /\ sm_client => EmptyAbstractsGetPlaceholders
        /\ ~sm_client => (sm_result = sm_papers /\ sm_calls = <<>>)

\* C8 witness: a summarizer with a client got a batch with an empty-abstract
\* record and a record it asked the model about.
C8_Witness ==
    /\ sm_pc = "done"
    /\ sm_client
    /\ Len(sm_calls) = 1
    /\ \E i \in 1..Len(sm_papers) :
          /\ HasNoAbstract(sm_papers[i])
          /\ sm_result[i]["summary_en"] = AbstractUnavailableEn

\* the "no matches" notice for a date
IsNoMatchesNotice(doc, date_str) ==
    /\ doc.heading = "No Relevant Papers Found"
    /\ doc.date = date_str
    /\ doc.rows = <<>>

\* the standard digest template
IsDigest(doc) == doc.heading = "PaperSeeker"

\* C9 as stated: whenever the notifier is asked to deliver for an empty list
\* of records, every document it produces is the "no matches" notice and none
\* is the digest template.
C9_AsStated ==
    (nt_pc = "done" /\ nt_call.op \in {"send", "send_empty_result"}
                    /\ nt_call.papers = <<>>) =>
        \A k \in 1..Len(nt_built) :
            /\ IsNoMatchesNotice(nt_built[k], nt_call.date)
            /\ ~IsDigest(nt_built[k])

\* C9 amended: send_empty_result always produces the "no matches" notice for
\* its date and never the digest template; send produces the digest template
\* with one entry per record it is given, whatever their number, also zero.
C9_NoticeOnlyFromSendEmptyResult ==
    nt_pc = "done" =>
        /\ nt_call.op = "send_empty_result" =>
              /\ Len(nt_built) = 1
              /\ IsNoMatchesNotice(nt_built[1], nt_call.date)
              /\ ~IsDigest(nt_built[1])
              /\ \A k \in 1..Len(nt_outbox) : nt_outbox[k].html = nt_built[1]
        /\ nt_call.op = "send" =>
              \A k \in 1..Len(nt_built) :
                  /\ IsDigest(nt_built[k])
                  /\ Len(nt_built[k].rows) = Len(nt_call.papers)

\* C9 witness: send_empty_result delivered its notice.
C9_Witness ==
    /\ nt_pc = "done"
    /\ nt_call.op = "send_empty_result"
    /\ Len(nt_outbox) = 1
    /\ IsNoMatchesNotice(nt_outbox[1].html, nt_call.date)

\* the run passed the probe and returned with zero filtered records
EndedWithNothingFiltered ==
    /\ dt_pc = "done"
    /\ filtered_papers = <<>>

\* an empty-result notice for the date was handed to the mail transport
NoticeSent(date_str) ==
    \E k \in 1..Len(dt_built) :
        /\ IsNoMatchesNotice(dt_built[k], date_str)
        /\ ~IsDigest(dt_built[k])

\* C10: every run of daily_task that passes the connectivity probe and ends
\* with zero filtered records, because search returned nothing or because
\* every record was filtered out, sends the empty-result notice, whose body
\* contains the supplied date string and differs from the digest template.
C10_EmptyResultNotice ==
    EndedWithNothingFiltered => NoticeSent(Strftime(Today - 1))

\* the scoring scenario: keywords ["battery"], no exclusions, one record
\* titled "Battery battery research", filter_batch done
BatteryScenario ==
    /\ kf_pc = "done"
    /\ cfg_keywords = <<BatteryWord>>
    /\ cfg_exclude = <<>>
    /\ kf_papers[1].title = BatteryTitle

\* retained at threshold 1 with its score attached, rejected at threshold 3
RetainedAtOneRejectedAtThree ==
    /\ kf_threshold = 1 =>
          kf_filtered = <<Put(kf_papers[1], "relevance_score", kf_scores[1])>>
    /\ kf_threshold = 3 => kf_filtered = <<>>

\* C11 as stated: in the scenario the keyword score is 2, the record is
\* retained at threshold 1 and rejected at threshold 3.
C11_AsStated ==
    BatteryScenario => (kf_scores[1] = 2 /\ RetainedAtOneRejectedAtThree)

\* C11 amended: in the scenario the keyword score is 1, since a keyword counts
\* once however often it occurs; the record is retained at threshold 1 and
\* rejected at threshold 3.
C11_BatteryScenario ==
    BatteryScenario => (kf_scores[1] = 1 /\ RetainedAtOneRejectedAtThree)

\* C11 witness: the scenario at threshold 1, the record retained.
C11_Witness ==
    /\ BatteryScenario
    /\ kf_threshold = 1
    /\ Len(kf_filtered) = 1

\* the events of a run that are a search query, a model call or mail work
IsWork(e) == e \in {"query", "filter_call", "summary_call", "session", "mail"}

\* C12: in every run of daily_task the mail-connectivity probe happens before
\* any search query, model call or mail delivery, and a run whose probe failed
\* has issued no search query, no model call and no mail.
C12_ProbeFirst ==
    /\ \A k \in 1..Len(dt_events) :
          IsWork(dt_events[k]) => (k > 1 /\ dt_events[1] = "probe")
    /\ (\E k \in 1..Len(dt_events) : dt_events[k] = "probe_failed") =>
          /\ dt_events = <<"probe_failed">>
          /\ dt_pc = "aborted"
          /\ dt_outbox = <<>> /\ dt_built = <<>>

\* C12 witness: a run whose probe failed, aborted with nothing else done.
C12_Witness ==
    /\ dt_pc = "aborted"
    /\ dt_events = <<"probe_failed">>

\* the score the model gave a record: the one its reply names, 3 when the
\* reply names none or the call failed
ModelScore(reply) ==
    IF reply.kind = "error" \/ reply.said = 0 THEN 3 ELSE reply.said

\* the rationale that goes with it: an error text when the call failed
Rationale(reply) ==
    IF reply.kind = "error" THEN <<"Error: ", "e">> ELSE reply.why

PfKeptIdx == {i \in 1..Len(pf_papers) : ModelScore(pf_replies[i]) >= pf_threshold}

PfNthKept(j) ==
    CHOOSE i \in PfKeptIdx : Cardinality({k \in PfKeptIdx : k <= i}) = j

\* C13: with a credential, filter_batch(records, threshold) asks the model
\* once per record and returns, in order, exactly the records whose model
\* score is >= threshold, each with that score and its rationale attached and
\* otherwise unchanged; a failed call gives its record score 3 and an error
\* rationale and leaves the outcome of every other record as its own reply
\* decides.
C13_AiFilterBatch ==
    (pf_pc = "done" /\ pf_client) =>
        /\ pf_calls = Len(pf_papers)
        /\ Len(pf_result) = Cardinality(PfKeptIdx)
        /\ \A j \in 1..Len(pf_result) :
              LET i == PfNthKept(j)
              IN  pf_result[j] =
                      Put(Put(pf_papers[i], "relevance_score",
                              ModelScore(pf_replies[i])),
                          "relevance_reason", Rationale(pf_replies[i]))

\* C13 witness: a batch of two in which one call failed and the other record
\* was decided by its own reply: kept above the threshold or dropped below it.
C13_Witness ==
    /\ pf_pc = "done"
    /\ pf_client
    /\ Len(pf_papers) = 2
    /\ pf_replies[1].kind = "error"
    /\ pf_replies[2].said = 2
    /\ pf_threshold = 3
    /\ Len(pf_result) = 1
    /\ pf_result[1]["relevance_score"] = 3

\* C14: without a credential filter_batch returns its input list, the same
\* records in the same order, makes no model call and leaves every record's
\* relevance_score and relevance_reason as they were, for every threshold.
C14_NoCredentialPassthrough ==
    (pf_pc = "done" /\ pf_api_key = "") =>
        /\ pf_result = pf_papers
        /\ pf_calls = 0

\* C14 witness: a filter without a credential returned a record whose score
\* lies below the threshold.
C14_Witness ==
    /\ pf_pc = "done"
    /\ pf_api_key = ""
    /\ pf_threshold = 3
    /\ \E k \in 1..Len(pf_result) : Get(pf_result[k], "relevance_score", 0) = 1

\* C15: whenever the sender or the recipient address is unconfigured, a
\* delivery by the notifier (digest, empty-result notice or test message)
\* opens no mail session and returns False.
C15_UnconfiguredSkipsDelivery ==
    (nt_pc = "done" /\ (sender_email = "" \/ recipient_email = "")) =>
        /\ nt_sessions = <<>>
        /\ nt_returned = FALSE

\* how often the run assigned a summary field of the record with an id
TimesAssigned(id, field) ==
    Cardinality({k \in 1..Len(dt_writes) :
                    dt_writes[k] = [id |-> id, field |-> field]})

\* every record handed to send had both summary fields assigned exactly once
SummariesSetOnce ==
    \A k \in 1..Len(papers_with_summary) :
        LET paper == papers_with_summary[k]
        IN  /\ TimesAssigned(paper["id"], "summary_zh") = 1
            /\ TimesAssigned(paper["id"], "summary_en") = 1
            /\ "summary_zh" \in DOMAIN paper
            /\ "summary_en" \in DOMAIN paper
            /\ \A j \in 1..Len(papers_with_summary) :
                  papers_with_summary[j]["id"] = paper["id"] => j = k

\* C16: in every run of daily_task that sends a digest, each record in the
\* digest had summary_zh and summary_en assigned exactly once during the run,
\* and both before the digest was rendered and sent: the assignments are
\* complete when the run reaches "Send email" with nothing rendered yet, and
\* none is made afterwards.
C16_SummariesSetOnce ==
    /\ dt_pc = "summarized" => (SummariesSetOnce /\ dt_built = <<>>)
    /\ (\E k \in 1..Len(dt_built) : IsDigest(dt_built[k])) =>
          /\ SummariesSetOnce
          /\ \A k \in 1..Len(dt_built) :
                /\ Len(dt_built[k].rows) = Len(papers_with_summary)
                /\ \A i \in 1..Len(dt_built[k].rows) :
                      /\ dt_built[k].rows[i].summary_zh =
                             papers_with_summary[i]["summary_zh"]
                      /\ dt_built[k].rows[i].summary_en =
                             papers_with_summary[i]["summary_en"]

\* C16 witness: a digest of two records was delivered in a run with a
\* credential, one record summarized by the model and one below the threshold.
C16_Witness ==
    /\ dt_pc = "done"
    /\ config.llm_api_key # ""
    /\ Len(dt_outbox) = 1
    /\ IsDigest(dt_outbox[1].html)
    /\ Len(dt_outbox[1].html.rows) = 2
    /\ \E k \in 1..Len(dt_events) : dt_events[k] = "summary_call"
    /\ \E i \in 1..2 : dt_outbox[1].html.rows[i].summary_zh = LowRelevanceZh

\* the score the AI filter gave the record with an id in this run
AiScoreOf(id) ==
    LET k == CHOOSE k \in 1..Len(dt_ai_scores) : dt_ai_scores[k].id = id
    IN  dt_ai_scores[k].score

\* the keyword score of the record with an id, as search returned it
KeywordScoreOf(id) ==
    LET k == CHOOSE k \in 1..Len(dt_papers) : dt_papers[k]["id"] = id
    IN  ScorePaper(LowerAll(config.research_keywords),
                   LowerAll(config.exclude_keywords), dt_papers[k])

\* the score the last filter stage of the run gave the record
LastStageScore(id) ==
    IF config.llm_api_key # "" THEN AiScoreOf(id) ELSE KeywordScoreOf(id)

\* C17: in a run where both the keyword filter and the AI filter run, every
\* record that reaches summarization and the digest carries as
\* relevance_score the score the AI filter gave it, not its keyword score;
\* when only the keyword filter runs it carries the keyword score.
C17_LastFilterStageWins ==
    /\ \A k \in 1..Len(filtered_papers) :
          filtered_papers[k]["relevance_score"] =
              LastStageScore(filtered_papers[k]["id"])
    /\ \A k \in 1..Len(papers_with_summary) :
          papers_with_summary[k]["relevance_score"] =
              LastStageScore(papers_with_summary[k]["id"])
    /\ \A d \in 1..Len(dt_built) : \A i \in 1..Len(dt_built[d].rows) :
          dt_built[d].rows[i].score = LastStageScore(papers_with_summary[i]["id"])

\* C17 witness: a digest was rendered in a run where both filters ran, with a
\* record whose AI score differs from its keyword score.
C17_Witness ==
    /\ config.llm_api_key # ""
    /\ \E d \in 1..Len(dt_built) : \E i \in 1..Len(dt_built[d].rows) :
          /\ dt_built[d].rows[i].score = AiScoreOf(papers_with_summary[i]["id"])
          /\ dt_built[d].rows[i].score # KeywordScoreOf(papers_with_summary[i]["id"])

\* C18: for every record list and threshold t, filter_batch with threshold t
\* applied to the output of filter_batch with threshold t returns the same
\* records in the same order with the same relevance_score values.
C18_FilterIdempotent ==
    kf_pc = "again" => kf_refiltered = kf_filtered

\* C18 witness: the second application was given a list that the first had
\* cut down from its input, under an exclusion list, and returned records.
C18_Witness ==
    /\ kf_pc = "again"
    /\ Len(kf_filtered) < Len(kf_papers)
    /\ Len(kf_refiltered) >= 1
    /\ exclude_keywords # <<>>

\* the requests issued so far, by endpoint and keyword
QueryLog == [k \in 1..Len(s_queries) |->
                [endpoint |-> s_queries[k].endpoint, keyword |-> s_queries[k].keyword]]

\* the requests of the first i entries of the keyword list when each entry
\* gets one primary request, followed by one fallback request exactly when
\* the primary ended in one of the given ways
RECURSIVE OneShotLog(_, _)
OneShotLog(i, causes) ==
    IF i = 0 THEN <<>>
    ELSE OneShotLog(i - 1, causes)
         \o <<[endpoint |-> "graphql", keyword |-> s_keywords[i]]>>
         \o (IF s_primary[i] \in causes
             THEN <<[endpoint |-> "works", keyword |-> s_keywords[i]]>>
             ELSE <<>>)

\* how often an endpoint was queried for a keyword
TimesQueried(endpoint, keyword) ==
    Cardinality({k \in 1..Len(QueryLog) :
                    QueryLog[k] = [endpoint |-> endpoint, keyword |-> keyword]})

\* C19 as stated: in a search that returns, the primary query is issued
\* exactly once for each keyword, the fallback endpoint is queried for a
\* keyword only when its primary query returned zero results together with an
\* error indicator, and no endpoint is queried twice for the same keyword.
C19_AsStated ==
    s_pc = "done" =>
        /\ QueryLog = OneShotLog(Len(s_keywords), {"no_results_with_errors"})
        /\ \A i \in 1..Len(s_keywords) :
              /\ TimesQueried("graphql", s_keywords[i]) = 1
              /\ TimesQueried("works", s_keywords[i]) <= 1

\* C19 amended: every entry of the keyword list that the search reaches gets
\* the primary query exactly once, followed by the fallback query exactly
\* once when the primary request ended in an exception of the HTTP library
\* (transport error or error status) or its reply had zero results together
\* with an errors indicator, and by nothing otherwise; a search that returns
\* has reached every entry.  A keyword listed twice is searched twice.
C19_OneShotFallback ==
    /\ Len(s_primary) <= Len(s_keywords)
    /\ QueryLog = OneShotLog(Len(s_primary), {"exception", "no_results_with_errors"})
    /\ s_pc = "done" => Len(s_primary) = Len(s_keywords)

\* C19 witness: a search of two keywords returned, the first having fallen
\* back after an exception, the second after an error reply without results.
C19_Witness ==
    /\ s_pc = "done"
    /\ s_primary = <<"exception", "no_results_with_errors">>
    /\ Len(s_queries) = 4

\* the record of the filter stage's output with an id
FilteredWithId(id) ==
    filtered_papers[CHOOSE k \in 1..Len(filtered_papers) :
                        filtered_papers[k]["id"] = id]

\* the summarize stage of the run is over
Summarized == dt_pc = "summarized" \/ (dt_pc = "done" /\ papers_with_summary # <<>>)

\* C20: in a run with a credential the summarization model is invoked only
\* for records whose relevance_score is >= the summarize threshold; every
\* record with relevance_score below it receives the fixed low-relevance
\* placeholder in both languages and causes no model call.
C20_SummarizeThresholdGating ==
    config.llm_api_key # "" =>
        /\ \A c \in 1..Len(dt_summary_calls) :
              FilteredWithId(dt_summary_calls[c])["relevance_score"]
                  >= config.summarize_threshold
        /\ Summarized =>
              \A k \in 1..Len(filtered_papers) :
                  filtered_papers[k]["relevance_score"] < config.summarize_threshold =>
                      /\ \A c \in 1..Len(dt_summary_calls) :
                            dt_summary_calls[c] # filtered_papers[k]["id"]
                      /\ \E j \in 1..Len(papers_with_summary) :
                            /\ papers_with_summary[j]["id"] = filtered_papers[k]["id"]
                            /\ papers_with_summary[j]["summary_zh"] = LowRelevanceZh
                            /\ papers_with_summary[j]["summary_en"] = LowRelevanceEn
                      /\ \A j \in 1..Len(papers_with_summary) :
                            papers_with_summary[j]["id"] = filtered_papers[k]["id"] =>
                                papers_with_summary[j]["summary_zh"] = LowRelevanceZh

\* C20 witness: the summarize stage of a run with a credential passed over a
\* record that has an abstract and a score below the threshold, and gave it
\* the placeholder.
C20_Witness ==
    /\ dt_pc = "summarized"
    /\ config.llm_api_key # ""
    /\ dt_summary_calls = <<>>
    /\ \E k \in 1..Len(papers_with_summary) :
          /\ papers_with_summary[k]["relevance_score"] < config.summarize_threshold
          /\ Get(papers_with_summary[k], "abstract", <<>>) # <<>>
          /\ papers_with_summary[k]["summary_en"] = LowRelevanceEn


\* the run has no model credential
NoCredential == config.llm_api_key = ""

\* the model calls the run has made, at any stage
ModelCalls ==
    SelectSeq(dt_events, LAMBDA e : e \in {"filter_call", "summary_call"})

\* the filter stage kept records and the summarize stage has acted on them
SummarizeStageActed ==
    /\ filtered_papers # <<>>
    /\ dt_pc \in {"summarized", "done", "raised"}

\* zh is a truncated prefix of the raw abstract, followed by the ellipsis
IsTruncatedPrefix(zh, abstract) ==
    \E n \in 0..Len(abstract) : zh = SubSeq(abstract, 1, n) \o <<"...">>

\* every filtered record is in the digest's list with a prefix of its raw
\* abstract as summary_zh and the fixed placeholder as summary_en
DegradedSummaries ==
    /\ Len(papers_with_summary) = Len(filtered_papers)
    /\ \A i \in 1..Len(papers_with_summary) :
          /\ papers_with_summary[i]["id"] = filtered_papers[i]["id"]
          /\ IsTruncatedPrefix(papers_with_summary[i]["summary_zh"],
                               Get(filtered_papers[i], "abstract", <<>>))
          /\ papers_with_summary[i]["summary_en"] =
                 <<"(No English summary available)">>

\* C21: a run of daily_task with no model credential makes no model call at
\* any stage, and once the filter has kept records the summarize stage
\* completes without error for every one of them, a record whose abstract is
\* missing included, giving each a truncated prefix of its raw abstract as
\* summary_zh and the fixed placeholder as summary_en.
C21_DegradedMode ==
    NoCredential =>
        /\ ModelCalls = <<>>
        /\ SummarizeStageActed => (dt_error = "" /\ DegradedSummaries)


\* the places of a labeled score token in a reply: the label at i, at most
\* one colon, blanks or line breaks, and a digit at d
LabeledScores(content) ==
    {m \in (1..Len(content)) \X (1..Len(content)) :
        /\ content[m[1]] = ScoreMarker
        /\ m[2] > m[1]
        /\ content[m[2]] \in Digits
        /\ \E a \in {m[1] + 1, m[1] + 2} :
              /\ a <= m[2]
              /\ a = m[1] + 2 => content[m[1] + 1] \in Colons
              /\ \A k \in a..(m[2] - 1) : content[k] \in Whitespace}

\* the places of a labeled rationale token: the label at i, at most one
\* colon, blanks or line breaks, and the rationale's first character at g
LabeledRationales(content) ==
    {m \in (1..Len(content)) \X (1..Len(content)) :
        /\ content[m[1]] = ReasonMarker
        /\ m[2] > m[1]
        /\ content[m[2]] # Newline
        /\ \E a \in {m[1] + 1, m[1] + 2} :
              /\ a <= m[2]
              /\ a = m[1] + 2 => content[m[1] + 1] \in Colons
              /\ \A k \in a..(m[2] - 1) : content[k] \in Whitespace}

\* the tokens of the first set that come first in the reply
Leftmost(ms) == {m \in ms : \A n \in ms : m[1] <= n[1]}

\* the integer the digits from d on spell, read from the last digit back
RECURSIVE Spelled(_, _, _)
Spelled(content, d, e) ==
    IF e < d THEN 0
    ELSE 10 * Spelled(content, d, e - 1) + DigitValue(content[e])

\* the last place of the run of characters of S that starts at d
RunEnd(content, d, S) ==
    CHOOSE e \in d..Len(content) :
        /\ \A k \in d..e : content[k] \in S
        /\ e < Len(content) => content[e + 1] \notin S

\* the rest of the line from g on, without blanks around it
RestOfLine(content, g) ==
    Strip(SubSeq(content, g, RunEnd(content, g, ReplyTokens \ {Newline})))

\* C22: for every model reply filter_single returns a result and raises
\* nothing; the score is 3 when the reply holds no labeled score token and
\* the integer of its first labeled score token otherwise; the rationale is
\* the entire reply when it holds no labeled rationale token and the text
\* that follows its first rationale label otherwise.
C22_ReplyParsing ==
    (pr_pc = "returned" /\ pr_reply.kind = "content") =>
        LET content == pr_reply.content
        IN  /\ DOMAIN pr_result = {"score", "reason"}
            /\ LabeledScores(content) = {} => pr_result.score = 3
            /\ \A m \in Leftmost(LabeledScores(content)) :
                  pr_result.score =
                      Spelled(content, m[2], RunEnd(content, m[2], Digits))
            /\ LabeledRationales(content) = {} => pr_result.reason = content
            /\ LabeledRationales(content) # {} =>
                  \E m \in Leftmost(LabeledRationales(content)) :
                      pr_result.reason = RestOfLine(content, m[2])

\* C22 witness: a reply with a labeled score after a blank and no rationale
\* label was parsed: its integer is the score, the whole reply the rationale.
C22_Witness ==
    /\ pr_pc = "returned"
    /\ pr_reply.kind = "content"
    /\ pr_reply.content = <<ScoreMarker, " ", "5">>
    /\ pr_result = [score |-> 5, reason |-> pr_reply.content]


\* the payload has no value for key k: the key is absent, or null
Missing(work, k, null) == k \notin DOMAIN work \/ work[k] = null

\* C23: for every payload in which the abstract, the journal or the
\* publication date is missing (key absent or null), _parse_work returns a
\* record whose corresponding field is the empty string.
C23_MissingFieldsEmpty ==
    pw_pc = "returned" =>
        /\ Missing(pw_work, "abstract", None) => pw_record.abstract = <<>>
        /\ Missing(pw_work, "journal", NoneObject) => pw_record.journal = <<>>
        /\ Missing(pw_work, "publication_date", NoneDate) =>
              pw_record.publication_date = NoDate


\* the stage of daily_task an event belongs to: the probe, search, filter,
\* summarize, notify
StageOf(e) ==
    CASE e \in {"probe", "probe_failed"} -> 0
      [] e = "query" -> 1
      [] e = "filter_call" -> 2
      [] e = "summary_call" -> 3
      [] e \in {"session", "mail"} -> 4

\* no event of a stage comes after an event of a later stage
StagesInOrder ==
    \A i, j \in 1..Len(dt_events) :
        i < j => StageOf(dt_events[i]) <= StageOf(dt_events[j])

\* each stage's output exists only once the stage before it has returned
OutputsInOrder ==
    /\ dt_papers # <<>> => dt_pc \in {"found", "filtered", "summarized", "done", "raised"}
    /\ filtered_papers # <<>> => dt_pc \in {"filtered", "summarized", "done", "raised"}
    /\ papers_with_summary # <<>> => dt_pc \in {"summarized", "done"}
    /\ dt_built # <<>> => dt_pc = "done"
    /\ (\E k \in 1..Len(dt_built) : IsDigest(dt_built[k])) =>
          Len(dt_built[1].rows) = Len(papers_with_summary)

\* C24: in every run of daily_task the stages occur in the order search (all
\* keywords), filter, summarize, notify, each working on what the one before
\* it returned for all records, and the run builds and delivers at most one
\* mail message: one digest or one empty-result notice, never both.
C24_PipelineOrder ==
    /\ StagesInOrder
    /\ OutputsInOrder
    /\ Len(dt_built) <= 1
    /\ Len(dt_outbox) <= 1
    /\ ~(\E j, k \in 1..Len(dt_built) :
              IsDigest(dt_built[j]) /\ ~IsDigest(dt_built[k]))

\* C24 witness: a run that queried, called the relevance model and the
\* summary model, and delivered its one digest.
C24_Witness ==
    /\ dt_pc = "done"
    /\ \E k \in 1..Len(dt_events) : dt_events[k] = "query"
    /\ \E k \in 1..Len(dt_events) : dt_events[k] = "filter_call"
    /\ \E k \in 1..Len(dt_events) : dt_events[k] = "summary_call"
    /\ dt_events[Len(dt_events)] = "mail"
    /\ Len(dt_outbox) = 1
    /\ IsDigest(dt_built[1])


\* how many cards of a digest show the record p
TimesShown(doc, p) ==
    Cardinality({r \in 1..Len(doc.rows) :
                    /\ doc.rows[r].openalex_url = p["openalex_url"]
                    /\ doc.rows[r].score = p["relevance_score"]})

\* C25: in every run of daily_task that sends a digest, the digest's cards are
\* exactly the records that passed the last filter stage, each shown exactly
\* once whichever side of the summarize threshold it fell on, and each with a
\* relevance_score >= the configured relevance threshold.
C25_DigestCompleteness ==
    \A k \in 1..Len(dt_built) :
        IsDigest(dt_built[k]) =>
            /\ Len(dt_built[k].rows) = Len(filtered_papers)
            /\ \A i \in 1..Len(filtered_papers) :
                  TimesShown(dt_built[k], filtered_papers[i]) = 1
            /\ \A r \in 1..Len(dt_built[k].rows) :
                  dt_built[k].rows[r].score >= config.relevance_threshold

\* C25 witness: a delivered digest of two records, one at or above the
\* summarize threshold and one below it.
C25_Witness ==
    /\ dt_pc = "done"
    /\ Len(dt_outbox) = 1
    /\ IsDigest(dt_built[1])
    /\ Len(dt_built[1].rows) = 2
    /\ \E r \in 1..2 : dt_built[1].rows[r].score >= config.summarize_threshold
    /\ \E r \in 1..2 : dt_built[1].rows[r].score < config.summarize_threshold


\* the non-empty identifiers among the per-keyword results
FetchedIds ==
    {Flatten(s_fetched)[j]["id"] : j \in 1..Len(Flatten(s_fetched))} \ {<<>>}

\* C26: a normalized record whose identifier is empty is never in the list
\* search returns: every returned record has a non-empty identifier, and the
\* number of returned records is the number of distinct non-empty identifiers
\* across all per-keyword results.
C26_NoEmptyIdentifier ==
    s_pc = "done" =>
        /\ \A i \in 1..Len(s_result) : s_result[i]["id"] # <<>>
        /\ Len(s_result) = Cardinality(FetchedIds)

\* C26 witness: a search returned records although a keyword's results held a
\* record without an identifier.
C26_Witness ==
    /\ s_pc = "done"
    /\ \E j \in 1..Len(Flatten(s_fetched)) : Flatten(s_fetched)[j]["id"] = <<>>
    /\ Len(s_result) >= 1

====
